---- MODULE Spec2Model ----
(***************************************************************************)
(* SmartFileSorter: the rule matcher, the collision-safe transfer and the  *)
(* routing loops of the legacy (PySimpleGUI / Tk) and modern front-ends.   *)
(*                                                                         *)
(* Text is a sequence of one-character strings, so that lowercasing,       *)
(* trimming, splitting and substring search are computed, not assumed.     *)
(***************************************************************************)
EXTENDS Integers, Sequences, FiniteSets, TLC

VARIABLES
    mName,      \* match_routes_for_name: the file name argument
    mRoutes,    \* match_routes_for_name: the rule list argument
    mResult,    \* match_routes_for_name: the returned list of (pattern, target)
    mDone       \* whether the matcher has been applied to (mName, mRoutes)

matchVars == <<mName, mRoutes, mResult, mDone>>

VARIABLES
    fs,          \* the regular files: [dir, name] -> content
    dirs,        \* the directories that exist
    uncreatable, \* directories os.makedirs cannot create (occupied by a file, no permission)
    pre,         \* fs as it was before the last transfer call
    last,        \* the last transfer call: [op, src, dst, io, ok, ret]
    run,         \* the current run of successful copies of one source into one directory
    ncalls       \* transfer calls made so far

fsVars == <<fs, dirs, uncreatable>>
callVars == <<pre, last, run, ncalls>>

VARIABLES
    ui,             \* the front-end: "sg", "tk" (legacy) or "modern"
    base,           \* the base destination folder typed into the window
    routes,         \* cfg['routes']
    copy_mode,      \* the copy-mode checkbox
    auto_use_first, \* the modern front-end's auto-first checkbox
    matched_files,  \* the scan result shown in the window
    pc,             \* where the execute handler stands
    idx,            \* position of the per-file loop (1-based)
    groups,         \* execute_move: no_match_files, single_match_files, multi_match_files
    plan,           \* execute_move: all_files_to_process
    offered,        \* the candidate targets listed in the open prompt
    moved,          \* moved
    failed,         \* failed (modern) / number of '处理失败' log lines (legacy)
    skipped,        \* skipped files reported in the log
    outcomes        \* what became of each file, in the order it was decided

batchVars == <<ui, base, routes, copy_mode, auto_use_first, matched_files, pc, idx,
               groups, plan, offered, moved, failed, skipped, outcomes>>

VARIABLES
    tCall,      \* a helper called on its own: the function and its arguments
    tRet,       \* the value it returned
    tDone       \* whether it has returned

textVars == <<tCall, tRet, tDone>>

VARIABLES
    scan,       \* the scan handler's last call of find_matching_files
    found       \* find_matching_files: found

scanVars == <<scan, found>>

VARIABLES
    cfg,            \* the front-end's cfg dict
    DEFAULT_CONFIG, \* the module's DEFAULT_CONFIG dict (its lists are mutable objects)
    shared,         \* the keys of cfg whose value is the very object DEFAULT_CONFIG holds
    config_file,    \* what is stored at CONFIG_PATH
    writable,       \* whether CONFIG_PATH can be opened for writing
    kw_listbox,     \* run_tk_gui: the keyword listbox
    added,          \* the keywords handed to add-keyword since the list was last empty or loaded
    loads,          \* the load_config calls made: what was stored and what was returned
    rm_open,        \* whether the rule manager window is open
    rm_cfg,         \* RuleManagerWindow.cfg, the dict the modern rule manager holds
    rm_shared,      \* the keys of rm_cfg whose value is the very object DEFAULT_CONFIG holds
    nops,           \* the rule manager and scan handlers run so far
    mlast           \* the last rule manager handler: the selection, the rules before and after

cfgVars == <<cfg, DEFAULT_CONFIG, shared, config_file, writable, kw_listbox, added, loads,
             rm_open, rm_cfg, rm_shared, nops, mlast>>

vars == <<matchVars, fsVars, callVars, batchVars, textVars, scanVars, cfgVars>>

TextIdle ==
    /\ tCall = <<>>
    /\ tRet = <<>>
    /\ tDone = FALSE

ScanIdle ==
    /\ scan = <<>>
    /\ found = <<>>

ConfigIdle ==
    /\ cfg = <<>>
    /\ DEFAULT_CONFIG = <<>>
    /\ shared = {}
    /\ config_file = <<>>
    /\ writable = FALSE
    /\ kw_listbox = <<>>
    /\ added = <<>>
    /\ loads = <<>>
    /\ rm_open = FALSE
    /\ rm_cfg = <<>>
    /\ rm_shared = {}
    /\ nops = 0
    /\ mlast = [op |-> "none", sel |-> {}, before |-> <<>>, after |-> <<>>]

(***************************************************************************)
(* Bounds                                                                  *)
(***************************************************************************)
MaxNameLen == 2     \* longest file name given to the matcher
MaxRules == 2       \* longest rule list given to the matcher
MaxPatChars == 3    \* pattern characters summed over one rule list
MaxPre == 1         \* highest numeric suffix already present in a destination
MaxCalls == 2       \* transfer calls in one behaviour
MaxFiles == 3       \* files in one scan result

NameChars == {"A", "b"}
PatChars == {"A", "b", "|", " "}
\* the target of the rule at each position of a rule list
TargetNames == <<"x", "y", "z", "w">>

Strings(chars, n) == UNION {[1..k -> chars] : k \in 0..n}

(***************************************************************************)
(* str methods                                                             *)
(***************************************************************************)
\* str.lower() on one character
LowerChar(c) == CASE c = "A" -> "a" [] c = "B" -> "b" [] OTHER -> c

\* str.lower()
Lower(s) == [i \in 1..Len(s) |-> LowerChar(s[i])]

\* the whitespace str.strip() removes
IsSpace(c) == c \in {" ", "\t", "\n", "\r"}

RECURSIVE LStrip(_)
LStrip(s) == IF s # <<>> /\ IsSpace(Head(s)) THEN LStrip(Tail(s)) ELSE s

RECURSIVE RStrip(_)
RStrip(s) ==
    IF s # <<>> /\ IsSpace(s[Len(s)]) THEN RStrip(SubSeq(s, 1, Len(s) - 1)) ELSE s

\* str.strip()
Strip(s) == RStrip(LStrip(s))

\* str.split(sep) for a one-character separator: empty pieces are kept
RECURSIVE Split(_, _)
Split(s, sep) ==
    IF \A i \in 1..Len(s) : s[i] # sep
    THEN <<s>>
    ELSE LET i == CHOOSE k \in 1..Len(s) :
                      s[k] = sep /\ \A j \in 1..(k - 1) : s[j] # sep
         IN  <<SubSeq(s, 1, i - 1)>> \o Split(SubSeq(s, i + 1, Len(s)), sep)

\* `needle in hay` for str
Contains(hay, needle) ==
    \E i \in 1..(Len(hay) - Len(needle) + 1) :
        SubSeq(hay, i, i + Len(needle) - 1) = needle

RECURSIVE MapKeys(_)
MapKeys(parts) ==
    IF parts = <<>> THEN <<>>
    ELSE IF Strip(Head(parts)) # <<>>
         THEN <<Lower(Strip(Head(parts)))>> \o MapKeys(Tail(parts))
         ELSE MapKeys(Tail(parts))

\* keys = [x.strip().lower() for x in str(pattern).split('|') if x.strip()]
Keys(pattern) == MapKeys(Split(pattern, "|"))

\* a forgotten `break`: every matching key of the rule appends a pair
RECURSIVE ScanKeysNoBreak(_, _, _)
ScanKeysNoBreak(low, keys, rule) ==
    IF keys = <<>> THEN <<>>
    ELSE IF Head(keys) # <<>> /\ Contains(low, Head(keys))
         THEN <<<<rule.pattern, rule.target>>>> \o ScanKeysNoBreak(low, Tail(keys), rule)
         ELSE ScanKeysNoBreak(low, Tail(keys), rule)

\* for k in keys: if k and k in low: matches.append((pattern, target)); break
RECURSIVE ScanKeys(_, _, _)
ScanKeys(low, keys, rule) ==
    IF keys = <<>> THEN <<>>
    ELSE IF Head(keys) # <<>> /\ Contains(low, Head(keys))
         THEN <<<<rule.pattern, rule.target>>>>
         ELSE ScanKeys(low, Tail(keys), rule)

RECURSIVE ScanRules(_, _)
ScanRules(low, rules) ==
    IF rules = <<>> THEN <<>>
    ELSE ScanKeys(low, Keys(Head(rules).pattern), Head(rules))
             \o ScanRules(low, Tail(rules))

match_routes_for_name(name, rules) == ScanRules(Lower(name), rules)

MatchIdle ==
    /\ mName = <<>>
    /\ mRoutes = <<>>
    /\ mResult = <<>>
    /\ mDone = FALSE

(***************************************************************************)
(* Paths and the file system                                               *)
(*                                                                         *)
(* A directory is the sequence of its components from the root; a file is  *)
(* [dir, name] with the name as text. The content of a file is the place   *)
(* it was first created at, so that every original file has its own.       *)
(***************************************************************************)
File(d, n) == [dir |-> d, name |-> n]

NoFile == File(<<>>, <<>>)

\* os.path.basename
basename(f) == f.name

\* os.path.exists of dst_dir/name
exists(files, d, n) == File(d, n) \in DOMAIN files

Prefixes(d) == {SubSeq(d, 1, k) : k \in 1..Len(d)}

\* os.makedirs(d) without exist_ok: an existing directory is an error
makedirs_exist_not_ok(ds, blocked, d) ==
    LET missing == Prefixes(d) \ ds
        bad == missing \cap blocked
        stop == IF bad = {} THEN Len(d) + 1
                ELSE CHOOSE k \in 1..Len(d) :
                         /\ SubSeq(d, 1, k) \in bad
                         /\ \A j \in 1..(k - 1) : SubSeq(d, 1, j) \notin bad
    IN  [ok |-> bad = {} /\ d \notin ds,
         dirs |-> ds \cup {q \in missing : Len(q) < stop}]

\* os.makedirs(d, exist_ok=True): creates the missing directories from the
\* root down and raises at the first one it cannot create; an existing
\* directory is not an error.
makedirs(ds, blocked, d) ==
    LET missing == Prefixes(d) \ ds
        bad == missing \cap blocked
        stop == IF bad = {} THEN Len(d) + 1
                ELSE CHOOSE k \in 1..Len(d) :
                         /\ SubSeq(d, 1, k) \in bad
                         /\ \A j \in 1..(k - 1) : SubSeq(d, 1, j) \notin bad
    IN  [ok |-> bad = {},
         dirs |-> ds \cup {q \in missing : Len(q) < stop}]

\* os.path.splitext of a bname name: split at the last dot, unless only dots
\* come before it
splitext(bname) ==
    LET dots == {k \in 1..Len(bname) : bname[k] = "."}
        d == IF dots = {} THEN 0 ELSE CHOOSE k \in dots : \A j \in dots : j <= k
    IN  IF d > 0 /\ \E k \in 1..(d - 1) : bname[k] # "."
        THEN <<SubSeq(bname, 1, d - 1), SubSeq(bname, d, Len(bname))>>
        ELSE <<bname, <<>>>>

DigitChar(d) ==
    CASE d = 0 -> "0" [] d = 1 -> "1" [] d = 2 -> "2" [] d = 3 -> "3" [] d = 4 -> "4"
      [] d = 5 -> "5" [] d = 6 -> "6" [] d = 7 -> "7" [] d = 8 -> "8" [] d = 9 -> "9"

\* str(i) for i >= 0
RECURSIVE IntToStr(_)
IntToStr(i) ==
    IF i < 10 THEN <<DigitChar(i)>> ELSE IntToStr(i \div 10) \o <<DigitChar(i % 10)>>

\* the suffix written after the extension instead of before it
NumberedAfterExt(name, ext, i) == name \o ext \o <<"(">> \o IntToStr(i) \o <<")">>

\* f"{name}({i}){ext}"
Numbered(name, ext, i) == name \o <<"(">> \o IntToStr(i) \o <<")">> \o ext

\* shutil.copy2(src, dst) to a path that does not exist
copy2(files, src, dst) == (dst :> files[src]) @@ files

\* shutil.move(src, dst) to a path that does not exist
move(files, src, dst) ==
    [p \in (DOMAIN files \ {src}) \cup {dst} |-> IF p = dst THEN files[src] ELSE files[p]]

Raised(files, ds) == [ok |-> FALSE, ret |-> NoFile, fs |-> files, dirs |-> ds, checks |-> 0]

\* the search of safe_copy started at 0: the plain name is never tried again
\* but "name(0).ext" is
RECURSIVE CopySearchFromZero(_, _, _, _, _)
CopySearchFromZero(files, d, name, ext, i) ==
    IF ~exists(files, d, Numbered(name, ext, i - 1)) THEN i - 1
    ELSE CopySearchFromZero(files, d, name, ext, i + 1)

\* safe_copy: i = 1; while True: ... if not os.path.exists(nt): ...; i += 1
RECURSIVE CopySearch(_, _, _, _, _)
CopySearch(files, d, name, ext, i) ==
    IF ~exists(files, d, Numbered(name, ext, i)) THEN i
    ELSE CopySearch(files, d, name, ext, i + 1)

\* the search of safe_move going on with i += 2
RECURSIVE MoveSearchByTwo(_, _, _, _, _)
MoveSearchByTwo(files, d, name, ext, i) ==
    IF ~exists(files, d, Numbered(name, ext, i)) THEN i
    ELSE MoveSearchByTwo(files, d, name, ext, i + 2)

\* safe_move: i = 1; while True: ... if not os.path.exists(nt): ...; i += 1
RECURSIVE MoveSearch(_, _, _, _, _)
MoveSearch(files, d, name, ext, i) ==
    IF ~exists(files, d, Numbered(name, ext, i)) THEN i
    ELSE MoveSearch(files, d, name, ext, i + 1)

\* the name safe_copy transfers to in dst_dir
CopyTarget(files, src, d) ==
    LET bname == basename(src)
    IN  IF ~exists(files, d, bname) THEN bname
        ELSE LET ne == splitext(bname)
             IN  Numbered(ne[1], ne[2], CopySearch(files, d, ne[1], ne[2], 1))

\* the name safe_move transfers to in dst_dir
MoveTarget(files, src, d) ==
    LET bname == basename(src)
    IN  IF ~exists(files, d, bname) THEN bname
        ELSE LET ne == splitext(bname)
             IN  Numbered(ne[1], ne[2], MoveSearch(files, d, ne[1], ne[2], 1))

\* os.path.exists calls safe_copy makes: the plain name, then one per suffix tried
CopyChecks(files, d, bname) ==
    IF ~exists(files, d, bname) THEN 1
    ELSE 1 + CopySearch(files, d, splitext(bname)[1], splitext(bname)[2], 1)

\* os.path.exists calls safe_move makes: the plain name, then one per suffix tried
MoveChecks(files, d, bname) ==
    IF ~exists(files, d, bname) THEN 1
    ELSE 1 + MoveSearch(files, d, splitext(bname)[1], splitext(bname)[2], 1)

\* safe_copy that copies onto the plain name without looking
safe_copy_overwrite(files, ds, blocked, src, d, io) ==
    LET mk == makedirs(ds, blocked, d)
        nt == File(d, basename(src))
    IN  IF ~mk.ok THEN Raised(files, mk.dirs)
        ELSE IF io \/ src \notin DOMAIN files THEN Raised(files, mk.dirs)
        ELSE [ok |-> TRUE, ret |-> nt, dirs |-> mk.dirs, checks |-> 0,
              fs |-> [p \in DOMAIN files \cup {nt} |->
                         IF p = nt THEN files[src] ELSE files[p]]]

\* safe_copy(src, dst_dir); io: the copy itself fails (disk full, permission);
\* a source that is no longer there fails as well
safe_copy(files, ds, blocked, src, d, io) ==
    LET mk == makedirs(ds, blocked, d)
        nt == File(d, CopyTarget(files, src, d))
    IN  IF ~mk.ok THEN Raised(files, mk.dirs)
        ELSE IF io \/ src \notin DOMAIN files
             THEN [Raised(files, mk.dirs) EXCEPT !.checks = CopyChecks(files, d, basename(src))]
        ELSE [ok |-> TRUE, ret |-> nt, fs |-> copy2(files, src, nt), dirs |-> mk.dirs,
              checks |-> CopyChecks(files, d, basename(src))]

\* safe_move that leaves the source behind
safe_move_keeps_source(files, ds, blocked, src, d, io) ==
    LET mk == makedirs(ds, blocked, d)
        nt == File(d, MoveTarget(files, src, d))
    IN  IF ~mk.ok THEN Raised(files, mk.dirs)
        ELSE IF io \/ src \notin DOMAIN files THEN Raised(files, mk.dirs)
        ELSE [ok |-> TRUE, ret |-> nt, fs |-> copy2(files, src, nt), dirs |-> mk.dirs,
              checks |-> MoveChecks(files, d, basename(src))]

\* safe_move(src, dst_dir)
safe_move(files, ds, blocked, src, d, io) ==
    LET mk == makedirs(ds, blocked, d)
        nt == File(d, MoveTarget(files, src, d))
    IN  IF ~mk.ok THEN Raised(files, mk.dirs)
        ELSE IF io \/ src \notin DOMAIN files
             THEN [Raised(files, mk.dirs) EXCEPT !.checks = MoveChecks(files, d, basename(src))]
        ELSE [ok |-> TRUE, ret |-> nt, fs |-> move(files, src, nt), dirs |-> mk.dirs,
              checks |-> MoveChecks(files, d, basename(src))]

\* a path as typed: absolute or relative, and its components
Abs(comps) == [abs |-> TRUE, comps |-> comps]
Rel(comps) == [abs |-> FALSE, comps |-> comps]

\* the empty string
NoText == Rel(<<>>)

NoGroups == [none |-> <<>>, single |-> <<>>, multi |-> <<>>]

BatchIdle ==
    /\ ui = "sg"
    /\ base = NoText
    /\ routes = <<>>
    /\ copy_mode = FALSE
    /\ auto_use_first = FALSE
    /\ matched_files = <<>>
    /\ pc = "off"
    /\ idx = 0
    /\ groups = NoGroups
    /\ plan = <<>>
    /\ offered = <<>>
    /\ moved = 0
    /\ failed = 0
    /\ skipped = 0
    /\ outcomes = <<>>

(***************************************************************************)
(* Transfers called directly, one after another                            *)
(***************************************************************************)
SrcDir == <<"s">>
DstDir == <<"d">>
DeepDir == <<"d", "x", "y">>
TransferDirs == {DstDir, DeepDir}

BaseNames == {<<"a", ".", "t">>, <<".", "a">>, <<"a", ".", "b", ".", "t">>}

\* bname and its numbered variants up to n
Family(bname, n) ==
    {bname} \cup {Numbered(splitext(bname)[1], splitext(bname)[2], i) : i \in 1..n}

NoCall == [op |-> "none", src |-> NoFile, dst |-> <<>>, io |-> FALSE, ok |-> FALSE, ret |-> NoFile,
           predirs |-> {}, checks |-> 0]
NoRun == [src |-> NoFile, dst |-> <<>>, rets |-> <<>>, fresh |-> FALSE]

CallIdle ==
    /\ pre = << >>
    /\ last = NoCall
    /\ run = NoRun
    /\ ncalls = 0

FsIdle ==
    /\ fs = << >>
    /\ dirs = {}
    /\ uncreatable = {}
    /\ CallIdle

\* the files a directory starts with; each holds its own content
Originals(keys) == [p \in keys |-> p]

InitTransfer ==
    /\ MatchIdle
    /\ BatchIdle
    /\ TextIdle
    /\ ScanIdle
    /\ ConfigIdle
    /\ \E bname \in BaseNames, taken \in SUBSET (0..MaxPre) :
          fs = Originals({File(SrcDir, bname)}
                   \cup {File(DstDir, IF i = 0 THEN bname
                                      ELSE Numbered(splitext(bname)[1], splitext(bname)[2], i))
                            : i \in taken})
    /\ dirs = {SrcDir, DstDir}
    /\ uncreatable \in {{}, {<<"d", "x">>}, {DeepDir}}
    /\ CallIdle

\* what a directory holds before a run of copies starts
Fresh(files, src, d) ==
    \A n \in Family(basename(src), MaxCalls) : ~exists(files, d, n)

Record(op, src, d, io, r) ==
    /\ ncalls' = ncalls + 1
    /\ pre' = fs
    /\ fs' = r.fs
    /\ dirs' = r.dirs
    /\ last' = [op |-> op, src |-> src, dst |-> d, io |-> io, ok |-> r.ok, ret |-> r.ret,
                predirs |-> dirs, checks |-> r.checks]
    /\ run' = IF op = "copy" /\ r.ok
              THEN IF run.src = src /\ run.dst = d
                   THEN [run EXCEPT !.rets = Append(@, r.ret)]
                   ELSE [src |-> src, dst |-> d, rets |-> <<r.ret>>,
                         fresh |-> Fresh(fs, src, d)]
              ELSE NoRun
    /\ UNCHANGED <<uncreatable, matchVars, batchVars, textVars, scanVars, cfgVars>>

\* the sources a caller may name: a file of the source folder or one that
\* already sits in the destination, there or gone
Sources == {f \in DOMAIN fs \cup {File(SrcDir, b) : b \in BaseNames} :
               f.name \in BaseNames}

CallSafeCopy ==
    /\ ncalls < MaxCalls
    /\ \E src \in Sources, d \in TransferDirs, io \in BOOLEAN :
          Record("copy", src, d, io, safe_copy(fs, dirs, uncreatable, src, d, io))

CallSafeMove ==
    /\ ncalls < MaxCalls
    /\ \E src \in Sources, d \in TransferDirs, io \in BOOLEAN :
          Record("move", src, d, io, safe_move(fs, dirs, uncreatable, src, d, io))

NextTransfer == CallSafeCopy \/ CallSafeMove

SpecTransfer == InitTransfer /\ [][NextTransfer]_vars

(***************************************************************************)
(* The matcher applied to bounded inputs                                   *)
(***************************************************************************)
\* the rule lists of at most k more rules after `before` rules, with at most
\* `budget` pattern characters in all
RECURSIVE RouteLists(_, _, _)
RouteLists(before, k, budget) ==
    IF k = 0 THEN {<<>>}
    ELSE {<<>>} \cup UNION {
             { <<[pattern |-> p, target |-> TargetNames[before + 1]]>> \o rest :
                   rest \in RouteLists(before + 1, k - 1, budget - Len(p)) }
             : p \in Strings(PatChars, budget) }

InitMatch ==
    /\ FsIdle
    /\ BatchIdle
    /\ TextIdle
    /\ ScanIdle
    /\ ConfigIdle
    /\ mName \in Strings(NameChars, MaxNameLen)
    /\ mRoutes \in RouteLists(0, MaxRules, MaxPatChars)
    /\ mResult = <<>>
    /\ mDone = FALSE

ApplyMatch ==
    /\ ~mDone
    /\ mResult' = match_routes_for_name(mName, mRoutes)
    /\ mDone' = TRUE
    /\ UNCHANGED <<mName, mRoutes, fsVars, callVars, batchVars, textVars, scanVars, cfgVars>>

NextMatch == ApplyMatch

SpecMatch == InitMatch /\ [][NextMatch]_vars

(***************************************************************************)
(* The routing loop of the three front-ends                                *)
(*                                                                         *)
(* A path typed by the user or stored in a rule is [abs, comps]: whether   *)
(* it starts at the root, and its components. Relative paths are resolved  *)
(* against the working directory when the file system is reached.          *)
(***************************************************************************)
Cwd == <<"w">>

\* os.path.isabs
isabs(p) == p.abs

\* os.path.join(a, b)
join(a, b) == IF b.abs THEN b ELSE [abs |-> a.abs, comps |-> a.comps \o b.comps]

\* the directory a path names on disk
Resolve(p) == IF p.abs THEN p.comps ELSE Cwd \o p.comps

\* dest = chosen_target if os.path.isabs(chosen_target) else os.path.join(base, chosen_target)
Dest(b, chosen) == IF isabs(chosen) THEN chosen ELSE join(b, chosen)

IsDigit(c) == c \in {"0", "1", "2", "3", "4", "5", "6", "7", "8", "9"}

DigitVal(c) ==
    CASE c = "0" -> 0 [] c = "1" -> 1 [] c = "2" -> 2 [] c = "3" -> 3 [] c = "4" -> 4
      [] c = "5" -> 5 [] c = "6" -> 6 [] c = "7" -> 7 [] c = "8" -> 8 [] c = "9" -> 9

RECURSIVE DigitsValue(_, _)
DigitsValue(ds, acc) ==
    IF ds = <<>> THEN acc ELSE DigitsValue(Tail(ds), 10 * acc + DigitVal(Head(ds)))

\* int(text): surrounding blanks and a sign are accepted; ok = FALSE is ValueError
int(text) ==
    LET s == Strip(text)
        signed == s # <<>> /\ s[1] \in {"+", "-"}
        body == IF signed THEN Tail(s) ELSE s
    IN  IF body = <<>> \/ \E k \in 1..Len(body) : ~IsDigit(body[k])
        THEN [ok |-> FALSE, val |-> 0]
        ELSE [ok |-> TRUE,
              val |-> IF signed /\ s[1] = "-" THEN 0 - DigitsValue(body, 0)
                      ELSE DigitsValue(body, 0)]

\* opts = [m[1] for m in matches]
RECURSIVE Opts(_)
Opts(matches) == IF matches = <<>> THEN <<>> ELSE <<Head(matches)[2]>> \o Opts(Tail(matches))

Text(t) == [none |-> FALSE, text |-> t]
\* the dialog closed without an answer: None
NoChoice == [none |-> TRUE, text |-> <<>>]

\* the answer taken as the position itself, without the "- 1"
IndexOfOneBased(val) == val

\* idx = int(choice.strip()) - 1
IndexOf(val) == val - 1

\* an empty answer taken as "1", as the prompt's text announces
DecideDefaultFirst(front, choice, opts) ==
    IF choice.none \/ Strip(choice.text) = <<>> THEN [skip |-> FALSE, target |-> opts[1]]
    ELSE LET n == int(Strip(choice.text))
         IN  IF n.ok /\ 0 <= IndexOf(n.val) /\ IndexOf(n.val) < Len(opts)
             THEN [skip |-> FALSE, target |-> opts[IndexOf(n.val) + 1]]
             ELSE [skip |-> TRUE, target |-> NoText]

\* the legacy prompt's answer: the chosen target, or skip
\*   sg: if choice is None or choice.strip() == '': skip
\*   tk: if not choice: skip
\*   then idx = int(choice.strip()) - 1; 0 <= idx < len(opts), else skip;
\*   an exception skips as well
Decide(front, choice, opts) ==
    IF choice.none
           \/ (front = "sg" /\ Strip(choice.text) = <<>>)
           \/ (front = "tk" /\ choice.text = <<>>)
    THEN [skip |-> TRUE, target |-> NoText]
    ELSE LET n == int(Strip(choice.text))
         IN  IF ~n.ok THEN [skip |-> TRUE, target |-> NoText]
             ELSE IF 0 <= IndexOf(n.val) /\ IndexOf(n.val) < Len(opts)
                  THEN [skip |-> FALSE, target |-> opts[IndexOf(n.val) + 1]]
                  ELSE [skip |-> TRUE, target |-> NoText]

\* the last match instead of the first
AutoLast(matches) == matches[Len(matches)][2]

\* matches[0][1]
AutoFirst(matches) == matches[1][2]

RECURSIVE Firsts(_)
Firsts(multi) ==
    IF multi = <<>> THEN <<>>
    ELSE <<[f |-> Head(multi).f, target |-> AutoFirst(Head(multi).matches)]>>
             \o Firsts(Tail(multi))

\* execute_move: the three lists the scanned files are sorted into
RECURSIVE Classify(_, _, _)
Classify(files, rules, b) ==
    IF files = <<>> THEN [none |-> <<>>, single |-> <<>>, multi |-> <<>>]
    ELSE LET f == Head(files)
             matches == match_routes_for_name(basename(f), rules)
             rest == Classify(Tail(files), rules, b)
         IN  IF matches = <<>>
             THEN [rest EXCEPT !.none = <<[f |-> f, target |-> b]>> \o @]
             ELSE IF Len(matches) = 1
                  THEN [rest EXCEPT !.single = <<[f |-> f, target |-> matches[1][2]]>> \o @]
                  ELSE [rest EXCEPT !.multi = <<[f |-> f, matches |-> matches]>> \o @]

\* every answer to the multi-match dialog taken as "yes"
AfterPromptAlwaysFirst(g, answer) == [g EXCEPT !.single = @ \o Firsts(g.multi)]

\* execute_move after the multi-match dialog: "yes" appends the files with
\* their first match to single_match_files, "no" leaves them out
AfterPrompt(g, answer) ==
    IF answer = "yes" THEN [g EXCEPT !.single = @ \o Firsts(g.multi)] ELSE g

\* a failed transfer counted as moved as well
CountAllMoved(ok, m, fl) == [moved |-> m + 1, failed |-> IF ok THEN fl ELSE fl + 1]

\* moved += 1 after the transfer; the except branch counts (modern) or logs
\* (legacy) the failure
Count(ok, m, fl) ==
    [moved |-> IF ok THEN m + 1 ELSE m, failed |-> IF ok THEN fl ELSE fl + 1]

(***************************************************************************)
(* One batch: scan result, rules and settings chosen, then "execute"       *)
(***************************************************************************)
SubDir == <<"s", "u">>

NameA == <<"a", ".", "t">>
NameAB == <<"a", "b", ".", "t">>
NameC == <<"c", ".", "t">>

\* the scan result in directory traversal order; two files share a base name
Scanned == <<File(SrcDir, NameA), File(SrcDir, NameAB), File(SrcDir, NameC),
             File(SubDir, NameAB)>>

TX == Rel(<<"x">>)
TY == Rel(<<"y">>)
TZ == Abs(<<"z">>)

RuleSets == { << [pattern |-> <<"a">>, target |-> TX],
                 [pattern |-> <<" ", "B", "|", "b">>, target |-> TY] >>,
              << [pattern |-> <<"b">>, target |-> TZ],
                 [pattern |-> <<"A">>, target |-> TX] >> }

Bases == {NoText, Abs(DstDir), Rel(<<"r">>)}

UIs == {"sg", "tk", "modern"}

Choices == {NoChoice, Text(<<>>), Text(<<" ">>), Text(<<"1">>), Text(<<"2">>),
            Text(<<" ", "2">>), Text(<<"+", "1">>), Text(<<"0">>), Text(<<"3">>),
            Text(<<"-", "1">>), Text(<<"x">>), Text(<<"1", "0">>)}

\* the subsequences of s with at most n elements
RECURSIVE SubSeqs(_, _)
SubSeqs(s, n) ==
    IF s = <<>> \/ n = 0 THEN {<<>>}
    ELSE SubSeqs(Tail(s), n) \cup {<<Head(s)>> \o t : t \in SubSeqs(Tail(s), n - 1)}

InitBatch ==
    /\ MatchIdle
    /\ CallIdle
    /\ TextIdle
    /\ ScanIdle
    /\ ConfigIdle
    /\ ui \in UIs
    /\ base \in Bases
    /\ routes \in RuleSets
    /\ copy_mode \in BOOLEAN
    /\ auto_use_first \in (IF ui = "modern" THEN BOOLEAN ELSE {FALSE})
    /\ matched_files \in SubSeqs(Scanned, MaxFiles)
    /\ \E held \in SUBSET {File(DstDir, NameC)} :
          fs = Originals({Scanned[i] : i \in 1..Len(Scanned)} \cup held)
    /\ dirs = {SrcDir, SubDir, Cwd, DstDir}
    /\ uncreatable \in {{}, {Resolve(Dest(base, TX))}}
    /\ pc = "idle"
    /\ idx = 0
    /\ groups = NoGroups
    /\ plan = <<>>
    /\ offered = <<>>
    /\ moved = 0
    /\ failed = 0
    /\ skipped = 0
    /\ outcomes = <<>>

Outcome(f, kind, target, dest, ret, choice) ==
    [f |-> f, kind |-> kind, target |-> target, dest |-> dest, ret |-> ret,
     choice |-> choice]

\* the loop going over the same file again
AdvanceSameFile(work) ==
    /\ idx' = idx
    /\ pc' = IF idx >= Len(work) THEN "done" ELSE "run"

\* the position after the file at idx: the next file, or the closing summary
Advance(work) ==
    /\ idx' = idx + 1
    /\ pc' = IF idx >= Len(work) THEN "done" ELSE "run"

\* dest = ...; os.makedirs(dest, exist_ok=True)
\* try: safe_copy / safe_move; moved += 1   except Exception: log / failed += 1
\* os.makedirs stands before the try: when it raises, the handler ends there.
Transfer(f, chosen, choice, work) ==
    \E io \in BOOLEAN :
        LET dest == Dest(base, chosen)
            mk == makedirs(dirs, uncreatable, Resolve(dest))
            r == IF copy_mode
                 THEN safe_copy(fs, mk.dirs, uncreatable, f, Resolve(dest), io)
                 ELSE safe_move(fs, mk.dirs, uncreatable, f, Resolve(dest), io)
            c == Count(r.ok, moved, failed)
        IN  IF ~mk.ok
            THEN /\ pc' = "aborted"
                 /\ dirs' = mk.dirs
                 /\ UNCHANGED <<fs, idx, moved, failed, outcomes>>
            ELSE /\ fs' = r.fs
                 /\ dirs' = r.dirs
                 /\ moved' = c.moved
                 /\ failed' = c.failed
                 /\ outcomes' = Append(outcomes,
                        Outcome(f, IF r.ok THEN "ok" ELSE "fail", chosen, dest, r.ret, choice))
                 /\ Advance(work)

settings == <<ui, base, routes, copy_mode, auto_use_first, matched_files>>

\* run_sg_gui, ev == '执行' / run_tk_gui.do_move, up to the loop
LegacyExecute ==
    /\ pc = "idle" /\ ui \in {"sg", "tk"}
    /\ IF base = NoText
       THEN pc' = "refused" /\ UNCHANGED <<idx, moved>>
       ELSE /\ moved' = 0
            /\ idx' = 1
            /\ pc' = IF matched_files = <<>> THEN "done" ELSE "run"
    /\ UNCHANGED <<settings, textVars, scanVars, cfgVars, matchVars, fsVars, callVars, groups, plan, offered,
                   failed, skipped, outcomes>>

\* one pass of `for f in files` up to the transfer or up to the prompt
LegacyFile ==
    /\ pc = "run" /\ ui \in {"sg", "tk"}
    /\ LET f == matched_files[idx]
           matches == match_routes_for_name(basename(f), routes)
       IN  IF Len(matches) >= 2
           THEN /\ pc' = "ask"
                /\ offered' = Opts(matches)
                /\ UNCHANGED <<fs, dirs, idx, moved, failed, outcomes>>
           ELSE /\ Transfer(f, IF matches = <<>> THEN base ELSE matches[1][2],
                            NoChoice, matched_files)
                /\ UNCHANGED offered
    /\ UNCHANGED <<settings, textVars, scanVars, cfgVars, matchVars, uncreatable, callVars, groups, plan, skipped>>

\* the prompt returns: the file is skipped (logged) or goes to the chosen target
LegacyAnswer ==
    /\ pc = "ask" /\ ui \in {"sg", "tk"}
    /\ \E choice \in Choices :
          LET f == matched_files[idx]
              decision == Decide(ui, choice, offered)
          IN  IF decision.skip
              THEN /\ skipped' = skipped + 1
                   /\ outcomes' = Append(outcomes,
                          Outcome(f, "skip", NoText, NoText, NoFile, choice))
                   /\ Advance(matched_files)
                   /\ UNCHANGED <<fs, dirs, moved, failed>>
              ELSE /\ Transfer(f, decision.target, choice, matched_files)
                   /\ UNCHANGED skipped
    /\ offered' = <<>>
    /\ UNCHANGED <<settings, textVars, scanVars, cfgVars, matchVars, uncreatable, callVars, groups, plan>>

\* execute_move creating the destination folders while it classifies the files
ModernExecuteMakingDirs ==
    /\ pc = "idle" /\ ui = "modern"
    /\ IF base = NoText \/ matched_files = <<>>
       THEN pc' = "refused" /\ UNCHANGED <<groups, dirs>>
       ELSE LET g == Classify(matched_files, routes, base)
                all == g.none \o g.single \o Firsts(g.multi)
            IN  /\ dirs' = dirs \cup {Resolve(Dest(base, all[k].target)) : k \in 1..Len(all)}
                /\ groups' = IF g.multi # <<>> /\ auto_use_first
                             THEN [g EXCEPT !.single = @ \o Firsts(g.multi)]
                             ELSE g
                /\ pc' = IF g.multi # <<>> /\ ~auto_use_first THEN "prompt" ELSE "confirm"
    /\ UNCHANGED <<settings, textVars, scanVars, cfgVars, matchVars, fs, uncreatable, callVars,
                   idx, plan, offered, moved, failed, skipped, outcomes>>

\* FileManagerApp.execute_move up to the first dialog
ModernExecute ==
    /\ pc = "idle" /\ ui = "modern"
    /\ IF base = NoText \/ matched_files = <<>>
       THEN pc' = "refused" /\ UNCHANGED groups
       ELSE LET g == Classify(matched_files, routes, base)
            IN  IF g.multi # <<>>
                THEN IF auto_use_first
                     THEN /\ groups' = [g EXCEPT !.single = @ \o Firsts(g.multi)]
                          /\ pc' = "confirm"
                     ELSE /\ groups' = g
                          /\ pc' = "prompt"
                ELSE /\ groups' = g
                     /\ pc' = "confirm"
    /\ UNCHANGED <<settings, textVars, scanVars, cfgVars, matchVars, fsVars, callVars, idx, plan, offered,
                   moved, failed, skipped, outcomes>>

RECURSIVE SkipAll(_)
SkipAll(multi) ==
    IF multi = <<>> THEN <<>>
    ELSE <<Outcome(Head(multi).f, "skip", NoText, NoText, NoFile, NoChoice)>>
             \o SkipAll(Tail(multi))

\* messagebox.askyesnocancel returns: None aborts, True uses the first rule,
\* False skips the files (their number is logged)
ModernPrompt ==
    /\ pc = "prompt" /\ ui = "modern"
    /\ \E answer \in {"yes", "no", "cancel"} :
          IF answer = "cancel"
          THEN pc' = "cancelled" /\ UNCHANGED <<groups, skipped, outcomes>>
          ELSE /\ groups' = AfterPrompt(groups, answer)
               /\ skipped' = IF answer = "no" THEN Len(groups.multi) ELSE skipped
               /\ outcomes' = IF answer = "no" THEN outcomes \o SkipAll(groups.multi)
                              ELSE outcomes
               /\ pc' = "confirm"
    /\ UNCHANGED <<settings, textVars, scanVars, cfgVars, matchVars, fsVars, callVars, idx, plan, offered, moved, failed>>

\* messagebox.askyesno("确认执行") returns; all_files_to_process is built
ModernConfirm ==
    /\ pc = "confirm" /\ ui = "modern"
    /\ \E confirm \in BOOLEAN :
          IF ~confirm
          THEN pc' = "cancelled" /\ UNCHANGED <<plan, idx, moved, failed>>
          ELSE /\ plan' = groups.none \o groups.single
               /\ moved' = 0
               /\ failed' = 0
               /\ idx' = 1
               /\ pc' = IF groups.none \o groups.single = <<>> THEN "done" ELSE "run"
    /\ UNCHANGED <<settings, textVars, scanVars, cfgVars, matchVars, fsVars, callVars, groups, offered, skipped, outcomes>>

\* one pass of `for f, target in all_files_to_process`
ModernFile ==
    /\ pc = "run" /\ ui = "modern"
    /\ Transfer(plan[idx].f, plan[idx].target, NoChoice, plan)
    /\ UNCHANGED <<settings, textVars, scanVars, cfgVars, matchVars, uncreatable, callVars, groups, plan, offered, skipped>>

NextBatch ==
    \/ LegacyExecute
    \/ LegacyFile
    \/ LegacyAnswer
    \/ ModernExecute
    \/ ModernPrompt
    \/ ModernConfirm
    \/ ModernFile

SpecBatch == InitBatch /\ [][NextBatch]_vars

(***************************************************************************)
(* C1                                                                      *)
(***************************************************************************)
\* p[i..j] is a '|'-token of p once trimmed: it holds no '|', starts and ends
\* with a non-blank, and only blanks separate it from the enclosing '|' or
\* from the ends of p.
TrimmedTokenAt(p, i, j) ==
    /\ 1 <= i /\ i <= j /\ j <= Len(p)
    /\ \A k \in i..j : p[k] # "|"
    /\ ~IsSpace(p[i]) /\ ~IsSpace(p[j])
    /\ \E a \in 1..i :
          /\ a = 1 \/ p[a - 1] = "|"
          /\ \A k \in a..(i - 1) : IsSpace(p[k])
    /\ \E b \in j..Len(p) :
          /\ b = Len(p) \/ p[b + 1] = "|"
          /\ \A k \in (j + 1)..b : IsSpace(p[k])

MatchingTokens(name, p) ==
    { <<i, j>> \in (1..Len(p)) \X (1..Len(p)) :
          /\ TrimmedTokenAt(p, i, j)
          /\ Contains(Lower(name), Lower(SubSeq(p, i, j))) }

RuleApplies(name, rule) == MatchingTokens(name, rule.pattern) # {}

\* the rules that apply, as (pattern, target) pairs in rule order
ExpectedMatches(name, rules) ==
    LET hit == {i \in 1..Len(rules) : RuleApplies(name, rules[i])}
        nth(j) == CHOOSE i \in hit : Cardinality({k \in hit : k <= i}) = j
    IN  [j \in 1..Cardinality(hit) |->
            <<rules[nth(j)].pattern, rules[nth(j)].target>>]

\* C1: match_routes_for_name returns exactly the (pattern, target) pairs of the
\* rules having a non-empty trimmed lowercased '|'-token inside the lowercased
\* file name, in rule order, one pair per rule at most.
C1_MatchExactlyApplyingRules ==
    mDone => mResult = ExpectedMatches(mName, mRoutes)

\* two rules, the first with two tokens that both occur in the name: one pair
C1_Witness ==
    /\ mDone
    /\ Len(mRoutes) = 2
    /\ Cardinality(MatchingTokens(mName, mRoutes[1].pattern)) >= 2
    /\ mResult = <<<<mRoutes[1].pattern, mRoutes[1].target>>>>

(***************************************************************************)
(* C2, C3, C4                                                              *)
(***************************************************************************)
Called == last.op # "none"

ExtStart(bname) ==
    LET at == {k \in 1..Len(bname) :
                  /\ bname[k] = "."
                  /\ \A j \in (k + 1)..Len(bname) : bname[j] # "."
                  /\ \E j \in 1..(k - 1) : bname[j] # "."}
    IN  IF at = {} THEN Len(bname) + 1 ELSE CHOOSE k \in at : TRUE

\* name(i)ext
NameWithSuffix(bname, i) ==
    SubSeq(bname, 1, ExtStart(bname) - 1) \o <<"(">> \o IntToStr(i) \o <<")">>
        \o SubSeq(bname, ExtStart(bname), Len(bname))

\* C3: a successful transfer returns dst/bname when that path was unused, else
\* dst/name(i)ext for the least i >= 1 whose path was unused; k+1 copies of one
\* source into a directory that held none of these names return name.ext,
\* name(1).ext, ..., name(k).ext, all present afterwards.
C3_ReturnedPath ==
    /\ (Called /\ last.ok) =>
          LET bname == basename(last.src)
              d == last.dst
          IN  IF File(d, bname) \notin DOMAIN pre
              THEN last.ret = File(d, bname)
              ELSE \E i \in 1..(Cardinality(DOMAIN pre) + 1) :
                      /\ last.ret = File(d, NameWithSuffix(bname, i))
                      /\ last.ret \notin DOMAIN pre
                      /\ \A j \in 1..(i - 1) : File(d, NameWithSuffix(bname, j)) \in DOMAIN pre
    /\ run.fresh =>
          \A k \in 1..Len(run.rets) :
              /\ run.rets[k] = File(run.dst, IF k = 1 THEN basename(run.src)
                                             ELSE NameWithSuffix(basename(run.src), k - 1))
              /\ run.rets[k] \in DOMAIN fs

\* the same source copied twice into a directory that held neither name
C3_Witness ==
    /\ run.fresh
    /\ Len(run.rets) = 2
    /\ run.rets[2].name = NameWithSuffix(basename(run.src), 1)

\* C4: a successful safe_copy leaves the source with its content and puts that
\* content at the returned path; a successful safe_move removes the source and
\* puts its content at the returned path; both choose the same name.
C4_CopyKeepsMoveRemoves ==
    /\ (Called /\ last.ok /\ last.op = "copy") =>
          /\ last.src \in DOMAIN fs /\ fs[last.src] = pre[last.src]
          /\ last.ret \in DOMAIN fs /\ fs[last.ret] = pre[last.src]
    /\ (Called /\ last.ok /\ last.op = "move") =>
          /\ last.src \notin DOMAIN fs
          /\ last.ret \in DOMAIN fs /\ fs[last.ret] = pre[last.src]
    /\ \A src \in DOMAIN fs, d \in TransferDirs :
          CopyTarget(fs, src, d) = MoveTarget(fs, src, d)

\* a move that had to take a numbered name
C4_Witness ==
    /\ Called /\ last.ok /\ last.op = "move"
    /\ last.ret.name # basename(last.src)
    /\ last.src \notin DOMAIN fs

(***************************************************************************)
(* C5 .. C10                                                               *)
(***************************************************************************)
Legacy == ui \in {"sg", "tk"}

\* the rules that apply to a file's base name, as (pattern, target) pairs
MatchesOf(f) == ExpectedMatches(basename(f), routes)

Transferred(o) == o.kind \in {"ok", "fail"}

CountKind(kind) == Cardinality({k \in 1..Len(outcomes) : outcomes[k].kind = kind})

\* the files the loop runs over
Work == IF Legacy THEN matched_files ELSE [k \in 1..Len(plan) |-> plan[k].f]

\* C5: the target chosen for a file is the base folder when no rule matches its
\* base name and the matching rule's target when exactly one does; under the
\* modern front-end's auto-first policy a file with several matches gets the
\* target of the first matching rule, no prompt is shown, and every scanned
\* file is handed on exactly once (three files without failures: three moved,
\* none skipped).
C5_TargetFromMatches ==
    /\ \A k \in 1..Len(outcomes) :
          LET o == outcomes[k]
              m == MatchesOf(o.f)
          IN  Transferred(o) =>
                  /\ Len(m) = 0 => o.target = base
                  /\ Len(m) = 1 => o.target = m[1][2]
                  /\ (Len(m) >= 2 /\ ui = "modern" /\ auto_use_first) => o.target = m[1][2]
    /\ (ui = "modern" /\ auto_use_first) =>
          /\ pc # "prompt"
          /\ skipped = 0
          /\ pc \in {"run", "done", "aborted"} =>
                \A i \in 1..Len(matched_files) :
                    \E k \in 1..Len(plan) :
                        /\ plan[k].f = matched_files[i]
                        /\ plan[k].target = (IF MatchesOf(plan[k].f) = <<>> THEN base
                                             ELSE MatchesOf(plan[k].f)[1][2])
                        /\ \A j \in 1..Len(plan) : plan[j].f = plan[k].f => j = k
          /\ pc = "done" => moved + failed = Len(matched_files)

\* auto-first: a file without a match, one with one match and one with two,
\* all three moved
C5_Witness ==
    /\ ui = "modern" /\ auto_use_first /\ pc = "done"
    /\ moved = 3 /\ skipped = 0
    /\ \E a, b, c \in 1..Len(outcomes) :
          /\ Len(MatchesOf(outcomes[a].f)) = 0 /\ outcomes[a].target = base
          /\ Len(MatchesOf(outcomes[b].f)) = 1
          /\ Len(MatchesOf(outcomes[c].f)) = 2
          /\ outcomes[c].target = MatchesOf(outcomes[c].f)[1][2]
          /\ outcomes[c].target # MatchesOf(outcomes[c].f)[2][2]

\* C6: an I/O error at one file of a batch never ends the batch: once the
\* handler has ended after it started on the files, every file of the batch
\* has been processed (transferred, failed or skipped).
C6_ErrorNeverEndsBatch ==
    pc \in {"done", "aborted"} =>
        \A i \in 1..Len(Work) :
            \E k \in 1..Len(outcomes) : outcomes[k].f = Work[i]

WritesInteger(choice, i) ==
    /\ ~choice.none
    /\ \E a, b \in 1..Len(choice.text) :
          /\ a <= b
          /\ \A k \in 1..(a - 1) : IsSpace(choice.text[k])
          /\ \A k \in (b + 1)..Len(choice.text) : IsSpace(choice.text[k])
          /\ SubSeq(choice.text, a, b) \in {IntToStr(i), <<"+">> \o IntToStr(i)}

\* the candidate targets of a file in rule order
Candidates(f) == [j \in 1..Len(MatchesOf(f)) |-> MatchesOf(f)[j][2]]

\* the answer decides a file with several candidates as the index prompt
\* does: an integer i within 1..n sends it to the i-th candidate, any other
\* answer skips it
DecidedByIndex(o) ==
    LET c == Candidates(o.f)
    IN  Len(c) >= 2 =>
            IF \E i \in 1..Len(c) : WritesInteger(o.choice, i)
            THEN /\ Transferred(o)
                 /\ \E i \in 1..Len(c) : WritesInteger(o.choice, i) /\ o.target = c[i]
            ELSE o.kind = "skip"

C9_SkippedFileUntouched ==
    /\ \A k \in 1..Len(outcomes) :
          outcomes[k].kind = "skip" =>
              LET f == outcomes[k].f
              IN  /\ f \in DOMAIN fs /\ fs[f] = f
                  /\ \A p \in DOMAIN fs : fs[p] = f => p = f
                  /\ \A j \in 1..Len(outcomes) : outcomes[j].f = f => j = k
    /\ skipped = CountKind("skip")
    /\ pc \in {"run", "ask", "done", "aborted"} => moved = CountKind("ok")

\* a batch that moved one file and skipped another
C9_Witness ==
    /\ pc = "done" /\ ~copy_mode
    /\ CountKind("skip") >= 1 /\ moved >= 1

\* C10: the directory handed to the transfer is the chosen target when that is
\* absolute and the target joined under the base folder otherwise; for a file
\* without a match it is the base folder itself.
C10_DestinationResolved ==
    \A k \in 1..Len(outcomes) :
        LET o == outcomes[k]
        IN  Transferred(o) =>
                /\ o.dest = (IF o.target.abs THEN o.target
                             ELSE [abs |-> base.abs, comps |-> base.comps \o o.target.comps])
                /\ MatchesOf(o.f) = <<>> => Resolve(o.dest) = Resolve(base)

(***************************************************************************)
(* The normalizers and the file filter                                     *)
(***************************************************************************)
\* the characters '，' (U+FF0C) and '；' (U+FF1B)
FullComma == "U+FF0C"
FullSemicolon == "U+FF1B"

\* re.split(r'[...]+', s) for a character class: s is cut at every run of
\* class characters; a run at either end leaves an empty piece there
RECURSIVE ReSplit(_, _)
ReSplit(s, seps) ==
    IF \A i \in 1..Len(s) : s[i] \notin seps
    THEN <<s>>
    ELSE LET i == CHOOSE k \in 1..Len(s) :
                      s[k] \in seps /\ \A j \in 1..(k - 1) : s[j] \notin seps
             rest == {k \in (i + 1)..Len(s) : s[k] \notin seps}
             j == IF rest = {} THEN Len(s) + 1
                  ELSE CHOOSE k \in rest : \A m \in rest : k <= m
         IN  <<SubSeq(s, 1, i - 1)>> \o ReSplit(SubSeq(s, j, Len(s)), seps)

\* str.lstrip('.')
RECURSIVE LStripDots(_)
LStripDots(s) == IF s # <<>> /\ Head(s) = "." THEN LStripDots(Tail(s)) ELSE s

\* [p.strip().lstrip('.').lower() for p in parts if p.strip()]
RECURSIVE MapExts(_)
MapExts(parts) ==
    IF parts = <<>> THEN <<>>
    ELSE IF Strip(Head(parts)) # <<>>
         THEN <<Lower(LStripDots(Strip(Head(parts))))>> \o MapExts(Tail(parts))
         ELSE MapExts(Tail(parts))

ExtSeparators == {",", FullComma}

normalize_exts(extstr) ==
    IF extstr = <<>> THEN <<>>
    ELSE MapExts(ReSplit(extstr, ExtSeparators))

InSeq(x, s) == \E i \in 1..Len(s) : s[i] = x

\* the loop of parse_keywords without its `k not in seen` test
RECURSIVE KeepAll(_, _)
KeepAll(parts, out) ==
    IF parts = <<>> THEN out
    ELSE LET k == Strip(Head(parts))
         IN  IF k # <<>>
             THEN KeepAll(Tail(parts), Append(out, k))
             ELSE KeepAll(Tail(parts), out)

\* for p in parts: k = p.strip(); if k and k not in seen: seen.add(k); out.append(k)
RECURSIVE KeepFirsts(_, _)
KeepFirsts(parts, out) ==
    IF parts = <<>> THEN out
    ELSE LET k == Strip(Head(parts))
         IN  IF k # <<>> /\ ~InSeq(k, out)
             THEN KeepFirsts(Tail(parts), Append(out, k))
             ELSE KeepFirsts(Tail(parts), out)

KeywordSeparators == {" ", ",", FullComma, ";", FullSemicolon, "/", "|", "\t", "\n"}

parse_keywords(text) ==
    IF text = <<>> THEN <<>>
    ELSE KeepFirsts(ReSplit(Strip(text), KeywordSeparators), <<>>)

\* str.endswith
endswith(s, suffix) ==
    /\ Len(suffix) <= Len(s)
    /\ SubSeq(s, Len(s) - Len(suffix) + 1, Len(s)) = suffix

\* the extension compared without the '.' before it
file_matches_without_dot(name, kws, es) ==
    LET low == Lower(name)
    IN  IF es # <<>> /\ ~\E i \in 1..Len(es) : endswith(low, es[i])
        THEN FALSE
        ELSE IF kws = <<>> THEN TRUE
             ELSE \E i \in 1..Len(kws) : Contains(low, Lower(kws[i]))

file_matches(name, kws, es) ==
    LET low == Lower(name)
    IN  IF es # <<>> /\ ~\E i \in 1..Len(es) : endswith(low, <<".">> \o es[i])
        THEN FALSE
        ELSE IF kws = <<>> THEN TRUE
             ELSE \E i \in 1..Len(kws) : Contains(low, Lower(kws[i]))

(***************************************************************************)
(* The three helpers called on bounded arguments                           *)
(***************************************************************************)
MaxExtLen == 4      \* longest text given to normalize_exts
MaxKwLen == 3       \* longest text given to parse_keywords
MaxFileNameLen == 3 \* longest name given to file_matches

ExtChars == {"p", "A", ".", " ", ",", FullComma}
KwChars == {"a", "B", "\r"} \cup KeywordSeparators
FileNameChars == {"a", "B", ".", "p"}
FilterKeywords == {<<>>, <<"B">>, <<"a", "B">>}
FilterExts == {<<"p">>, <<"P">>}
\* the keyword lists and the extension lists given to file_matches
FilterKeywordLists == Strings(FilterKeywords, 2)
FilterExtLists == Strings(FilterExts, 2)

Call(fn, text, name, kws, es) ==
    [fn |-> fn, text |-> text, name |-> name, keywords |-> kws, exts |-> es]

InitText ==
    /\ MatchIdle
    /\ FsIdle
    /\ BatchIdle
    /\ ScanIdle
    /\ ConfigIdle
    /\ tCall \in {Call("normalize_exts", t, <<>>, <<>>, <<>>) : t \in Strings(ExtChars, MaxExtLen)}
              \cup {Call("parse_keywords", t, <<>>, <<>>, <<>>) : t \in Strings(KwChars, MaxKwLen)}
              \cup {Call("file_matches", <<>>, n, k, e) :
                        n \in Strings(FileNameChars, MaxFileNameLen),
                        k \in FilterKeywordLists,
                        e \in FilterExtLists}
    /\ tRet = <<>>
    /\ tDone = FALSE

Return(value) ==
    /\ tRet' = value
    /\ tDone' = TRUE
    /\ UNCHANGED <<tCall, matchVars, fsVars, callVars, batchVars, scanVars, cfgVars>>

CallNormalizeExts ==
    /\ ~tDone /\ tCall.fn = "normalize_exts"
    /\ Return(normalize_exts(tCall.text))

CallParseKeywords ==
    /\ ~tDone /\ tCall.fn = "parse_keywords"
    /\ Return(parse_keywords(tCall.text))

CallFileMatches ==
    /\ ~tDone /\ tCall.fn = "file_matches"
    /\ Return(file_matches(tCall.name, tCall.keywords, tCall.exts))

NextText == CallNormalizeExts \/ CallParseKeywords \/ CallFileMatches

SpecText == InitText /\ [][NextText]_vars

(***************************************************************************)
(* The scanner                                                             *)
(***************************************************************************)
\* the name of a path component as text
NameOf(c) == IF c = "B.p" THEN <<"B", ".", "p">>
             ELSE IF c = "a.p" THEN <<"a", ".", "p">>
             ELSE <<c>>

\* some enumeration of a finite set: the order in which the operating system
\* lists a directory
RECURSIVE SeqOf(_)
SeqOf(S) == IF S = {} THEN <<>>
            ELSE LET x == CHOOSE y \in S : TRUE IN <<x>> \o SeqOf(S \ {x})

\* os.path.isdir
isdir(ds, path) == path # NoText /\ Resolve(path) \in ds

\* os.path.isfile of d/entry
isfile(files, d, entry) == File(d, entry) \in DOMAIN files

\* the subdirectories directly inside d
SubDirs(ds, d) == {q \in ds : Len(q) = Len(d) + 1 /\ SubSeq(q, 1, Len(d)) = d}

\* os.listdir(d): the names of the files and of the subdirectories of d;
\* raises when d is no directory
listdir(files, ds, d) ==
    [ok |-> d \in ds,
     names |-> IF d \in ds
               THEN SeqOf({f.name : f \in {g \in DOMAIN files : g.dir = d}}
                          \cup {NameOf(q[Len(q)]) : q \in SubDirs(ds, d)})
               ELSE <<>>]

\* the non-directory names os.walk reports for d
WalkFiles(files, d) == SeqOf({f.name : f \in {g \in DOMAIN files : g.dir = d}})

RECURSIVE Filter(_, _, _, _)
Filter(d, names, kws, es) ==
    IF names = <<>> THEN <<>>
    ELSE IF file_matches(Head(names), kws, es)
         THEN <<File(d, Head(names))>> \o Filter(d, Tail(names), kws, es)
         ELSE Filter(d, Tail(names), kws, es)

RECURSIVE FilterFiles(_, _, _, _, _)
FilterFiles(files, d, names, kws, es) ==
    IF names = <<>> THEN <<>>
    ELSE IF isfile(files, d, Head(names)) /\ file_matches(Head(names), kws, es)
         THEN <<File(d, Head(names))>> \o FilterFiles(files, d, Tail(names), kws, es)
         ELSE FilterFiles(files, d, Tail(names), kws, es)

\* for root, dirs, files in os.walk(folder): top-down, every subdirectory
RECURSIVE Walk(_, _, _, _, _)
RECURSIVE WalkEach(_, _, _, _, _)
Walk(files, ds, d, kws, es) ==
    Filter(d, WalkFiles(files, d), kws, es)
        \o WalkEach(files, ds, SeqOf(SubDirs(ds, d)), kws, es)
WalkEach(files, ds, subs, kws, es) ==
    IF subs = <<>> THEN <<>>
    ELSE Walk(files, ds, Head(subs), kws, es) \o WalkEach(files, ds, Tail(subs), kws, es)

\* the listing kept without the os.path.isfile test
find_matching_files_any_entry(files, ds, folder, kws, es, recursive) ==
    IF folder = NoText \/ ~isdir(ds, folder)
    THEN [ok |-> TRUE, found |-> <<>>]
    ELSE IF recursive
         THEN [ok |-> TRUE, found |-> Walk(files, ds, Resolve(folder), kws, es)]
         ELSE LET ls == listdir(files, ds, Resolve(folder))
              IN  [ok |-> ls.ok,
                   found |-> Filter(Resolve(folder), ls.names, kws, es)]

\* the folder listed without the test at the top
find_matching_files_unguarded(files, ds, folder, kws, es, recursive) ==
    IF recursive
    THEN [ok |-> TRUE,
          found |-> IF Resolve(folder) \in ds
                    THEN Walk(files, ds, Resolve(folder), kws, es) ELSE <<>>]
    ELSE LET ls == listdir(files, ds, Resolve(folder))
         IN  [ok |-> ls.ok,
              found |-> FilterFiles(files, Resolve(folder), ls.names, kws, es)]

\* find_matching_files: ok is FALSE when the call raises
find_matching_files(files, ds, folder, kws, es, recursive) ==
    IF folder = NoText \/ ~isdir(ds, folder)
    THEN [ok |-> TRUE, found |-> <<>>]
    ELSE IF recursive
         THEN [ok |-> TRUE, found |-> Walk(files, ds, Resolve(folder), kws, es)]
         ELSE LET ls == listdir(files, ds, Resolve(folder))
              IN  [ok |-> ls.ok,
                   found |-> FilterFiles(files, Resolve(folder), ls.names, kws, es)]

(***************************************************************************)
(* The scanner called on a small tree                                      *)
(***************************************************************************)
\* /s with the subfolders u, u/v and a subfolder whose name looks like a file
ScanDirs == {<<"s">>, <<"s", "u">>, <<"s", "u", "v">>, <<"s", "B.p">>}

ScanFiles == {File(<<"s">>, <<"a", ".", "p">>),
              File(<<"s">>, <<"B", ".", "t">>),
              File(<<"s", "u">>, <<"a", ".", "p">>),
              File(<<"s", "u", "v">>, <<"a", "B", ".", "p">>),
              File(<<"s", "B.p">>, <<"B", ".", "p">>)}

\* the folder argument: empty, a folder, a missing path, a regular file
ScanFolders == {NoText, Abs(<<"s">>), Abs(<<"s", "u">>), Abs(<<"n">>),
                Abs(<<"s", "a.p">>)}

ScanKeywordLists == {<<>>, << <<"B">> >>, << <<"a">>, <<"t">> >>}
ScanExtLists == {<<>>, << <<"p">> >>, << <<"t">>, <<"p">> >>}

NoScan == [folder |-> NoText, keywords |-> <<>>, exts |-> <<>>, recursive |-> FALSE,
           done |-> FALSE, ok |-> FALSE]

InitScan ==
    /\ MatchIdle
    /\ CallIdle
    /\ BatchIdle
    /\ TextIdle
    /\ ConfigIdle
    /\ fs \in {Originals(S) : S \in SUBSET ScanFiles}
    /\ dirs = ScanDirs
    /\ uncreatable = {}
    /\ \E folder \in ScanFolders, kws \in ScanKeywordLists, es \in ScanExtLists,
          recursive \in BOOLEAN :
          scan = [NoScan EXCEPT !.folder = folder, !.keywords = kws, !.exts = es,
                                !.recursive = recursive]
    /\ found = <<>>

CallFindMatchingFiles ==
    /\ ~scan.done
    /\ LET r == find_matching_files(fs, dirs, scan.folder, scan.keywords, scan.exts,
                                    scan.recursive)
       IN  /\ scan' = [scan EXCEPT !.done = TRUE, !.ok = r.ok]
           /\ found' = r.found
    /\ UNCHANGED <<matchVars, fsVars, callVars, batchVars, textVars, cfgVars>>

NextScan == CallFindMatchingFiles

SpecScan == InitScan /\ [][NextScan]_vars

(***************************************************************************)
(* The configuration: DEFAULT_CONFIG, load_config, save_config and the     *)
(* keyword handlers of the three front-ends                                *)
(*                                                                         *)
(* A JSON scalar is [t, v]: its type and its text. A dict is a function on *)
(* its keys. DEFAULT_CONFIG.copy() is shallow: the copy's lists are the     *)
(* lists of DEFAULT_CONFIG until the key is assigned a new object.         *)
(***************************************************************************)
JStr(text) == [t |-> "str", v |-> text]
JNum(text) == [t |-> "num", v |-> text]

\* str(x)
str(x) == JStr(x.v)

Rule(p, t) == [pattern |-> p, target |-> t]

\* '试卷|卷子' -> '试卷' and '练习|作业' -> '练习', character by character
DefaultRoutes ==
    << Rule(JStr(<<"U+8BD5", "U+5377", "|", "U+5377", "U+5B50">>), JStr(<<"U+8BD5", "U+5377">>)),
       Rule(JStr(<<"U+7EC3", "U+4E60", "|", "U+4F5C", "U+4E1A">>), JStr(<<"U+7EC3", "U+4E60">>)) >>

DefaultExts == << <<"p", "d", "f">>, <<"d", "o", "c">>, <<"d", "o", "c", "x">>, <<"t", "x", "t">> >>

\* DEFAULT_CONFIG as the module defines it
BuiltIn(front) ==
    IF front = "modern"
    THEN [keywords |-> <<>>, exts |-> DefaultExts, recursive |-> TRUE,
          routes |-> DefaultRoutes, copy_mode |-> FALSE, auto_use_first_rule |-> TRUE]
    ELSE [keywords |-> <<>>, exts |-> DefaultExts, recursive |-> TRUE,
          routes |-> DefaultRoutes, copy_mode |-> FALSE]

\* the keys whose default value is a list object
ListKeys == {"keywords", "exts", "routes"}

\* for k in ['keywords', 'exts', 'recursive', 'copy_mode' (, 'auto_use_first_rule')]
MergedKeys(front) ==
    {"keywords", "exts", "recursive", "copy_mode"}
        \cup (IF front = "modern" THEN {"auto_use_first_rule"} ELSE {})

\* an entry of a stored routes list: an object with both keys, an object
\* lacking one of them, or no object at all
Entry(kind, p, t) == [kind |-> kind, pattern |-> p, target |-> t]

\* if isinstance(it, dict) and 'pattern' in it and 'target' in it:
\*     newr.append({'pattern': str(it['pattern']), 'target': str(it['target'])})
RECURSIVE Adopt(_)
Adopt(items) ==
    IF items = <<>> THEN <<>>
    ELSE IF Head(items).kind = "rule"
         THEN <<Rule(str(Head(items).pattern), str(Head(items).target))>> \o Adopt(Tail(items))
         ELSE Adopt(Tail(items))

\* [{'pattern': k, 'target': v} for k, v in routes.items()]
FromMap(items) == [i \in 1..Len(items) |-> Rule(items[i].pattern, items[i].target)]

\* what CONFIG_PATH holds
Missing == [kind |-> "missing", data |-> <<>>]
Unreadable == [kind |-> "unreadable", data |-> <<>>]
\* text that is no JSON
Garbage == [kind |-> "garbage", data |-> <<>>]
\* JSON that is no object: a list, a number, a string, null
NotAnObject == [kind |-> "value", data |-> <<>>]
\* a JSON object: the merged keys it has with their values, and its routes
Routes(shape, items) == [shape |-> shape, items |-> items]
Object(val, rts) == [kind |-> "object", data |-> [val |-> val, routes |-> rts]]

\* load_config() with CONFIG_PATH holding `file` and DEFAULT_CONFIG being
\* `dflt`: the dict returned, the keys of it that are objects of DEFAULT_CONFIG
\* and whether the call raised
load_config(file, dflt, front) ==
    IF file.kind # "object"
    THEN [raised |-> FALSE, cfg |-> dflt, shared |-> ListKeys]
    ELSE LET data == file.data
             given == MergedKeys(front) \cap DOMAIN data.val
             merged == [k \in DOMAIN dflt |-> IF k \in given THEN data.val[k] ELSE dflt[k]]
             newr == Adopt(data.routes.items)
         IN  IF data.routes.shape = "list"
             THEN IF newr # <<>>
                  THEN [raised |-> FALSE, cfg |-> [merged EXCEPT !.routes = newr],
                        shared |-> (ListKeys \ given) \ {"routes"}]
                  ELSE [raised |-> FALSE, cfg |-> merged, shared |-> ListKeys \ given]
             ELSE IF data.routes.shape = "map"
                  THEN [raised |-> FALSE,
                        cfg |-> [merged EXCEPT !.routes = FromMap(data.routes.items)],
                        shared |-> (ListKeys \ given) \ {"routes"}]
                  ELSE [raised |-> FALSE, cfg |-> merged, shared |-> ListKeys \ given]

\* json.dump(cfg, f)
Dumped(c) ==
    Object([k \in DOMAIN c \ {"routes"} |-> c[k]],
           Routes("list", [i \in 1..Len(c.routes) |->
                              Entry("rule", c.routes[i].pattern, c.routes[i].target)]))

\* save_config(cfg): a failure to write is printed and swallowed
save_config(file, canWrite, c) == IF canWrite THEN Dumped(c) ELSE file

\* every new keyword appended, present or not
RECURSIVE ExtendAlways(_, _)
ExtendAlways(existing, kws) ==
    IF kws = <<>> THEN existing
    ELSE ExtendAlways(Append(existing, Head(kws)), Tail(kws))

\* for k in kws: if k not in existing: existing.append(k)
RECURSIVE Extend(_, _)
Extend(existing, kws) ==
    IF kws = <<>> THEN existing
    ELSE IF InSeq(Head(kws), existing)
         THEN Extend(existing, Tail(kws))
         ELSE Extend(Append(existing, Head(kws)), Tail(kws))

(***************************************************************************)
(* A front-end started on a stored configuration, then its keyword         *)
(* handlers and the reloads of the configuration                           *)
(***************************************************************************)
MaxAdded == 3   \* keywords handed to the add-keyword handler between two resets
MaxLoads == 3   \* load_config calls in one behaviour

RX == Rule(JStr(<<"a">>), JStr(<<"x">>))
RY == Rule(JStr(<<"B">>), JStr(<<"y">>))

\* stored objects: written by a front-end, written by an older version
\* (routes as a map), edited by hand
ConfigObjects ==
    { Object(<<>>, Routes("none", <<>>)),
      Object([keywords |-> << <<"a">> >>, exts |-> << <<"p">> >>, recursive |-> FALSE,
              copy_mode |-> TRUE],
             Routes("list", <<Entry("rule", RX.pattern, RX.target),
                              Entry("rule", RY.pattern, RY.target)>>)),
      Object([keywords |-> << <<"B">>, <<"a">> >>], Routes("none", <<>>)),
      Object(<<>>, Routes("list", <<>>)),
      Object(<<>>, Routes("list", <<Entry("scalar", JNum(<<"5">>), JNum(<<"5">>)),
                                    Entry("notarget", JStr(<<"a">>), JStr(<<>>)),
                                    Entry("nopattern", JStr(<<>>), JStr(<<"x">>))>>)),
      Object(<<>>, Routes("list", <<Entry("rule", RY.pattern, RY.target),
                                    Entry("scalar", JStr(<<"a">>), JStr(<<"a">>)),
                                    Entry("notarget", JStr(<<"a">>), JStr(<<>>)),
                                    Entry("rule", JNum(<<"5">>), JStr(<<"x">>))>>)),
      Object(<<>>, Routes("map", <<Entry("pair", JStr(<<"B">>), JStr(<<"y">>)),
                                   Entry("pair", JStr(<<"a">>), JNum(<<"5">>))>>)),
      Object(<<>>, Routes("map", <<>>)),
      Object(<<>>, Routes("other", <<>>)) }

ConfigFiles == {Missing, Unreadable, Garbage, NotAnObject} \cup ConfigObjects

\* what the user types into the keyword field
KwInputs == { <<"a">>, <<"a", ",", "B">>, <<"B", " ", "a">>, <<" ">> }

Loaded(file, r) == [file |-> file, raised |-> r.raised, cfg |-> r.cfg]

NoMgr == [op |-> "none", sel |-> {}, before |-> <<>>, after |-> <<>>]

\* no rule manager window
ManagerClosed ==
    /\ rm_open = FALSE
    /\ rm_cfg = <<>>
    /\ rm_shared = {}
    /\ nops = 0
    /\ mlast = NoMgr

\* the front-end has started: cfg = load_config()
InitConfig ==
    /\ MatchIdle
    /\ FsIdle
    /\ TextIdle
    /\ ScanIdle
    /\ ui \in UIs
    /\ base = NoText /\ routes = <<>> /\ copy_mode = FALSE /\ auto_use_first = FALSE
    /\ matched_files = <<>> /\ pc = "off" /\ idx = 0 /\ groups = NoGroups
    /\ plan = <<>> /\ offered = <<>> /\ moved = 0 /\ failed = 0 /\ skipped = 0
    /\ outcomes = <<>>
    /\ config_file \in ConfigFiles
    /\ writable \in BOOLEAN
    /\ DEFAULT_CONFIG = BuiltIn(ui)
    /\ ManagerClosed
    /\ LET r == load_config(config_file, BuiltIn(ui), ui)
       IN  /\ cfg = r.cfg
           /\ shared = r.shared
           /\ loads = <<Loaded(config_file, r)>>
           /\ kw_listbox = IF ui = "tk" THEN r.cfg.keywords ELSE <<>>
           /\ added = r.cfg.keywords

Frame == UNCHANGED <<matchVars, fsVars, callVars, batchVars, textVars, scanVars, writable,
                     rm_open, rm_shared, nops, mlast>>

\* the add-keyword handler: run_sg_gui '添加关键词', FileManagerApp.add_keyword
\* (the list object of cfg is extended in place) and run_tk_gui.add_kw (a new
\* list made from the listbox); the sg rule manager is modal
AddKeyword ==
    /\ ~(ui = "sg" /\ rm_open)
    /\ \E raw \in KwInputs :
          LET kws == parse_keywords(raw)
              old == IF ui = "tk" THEN kw_listbox ELSE cfg.keywords
              existing == Extend(old, kws)
              c == [cfg EXCEPT !.keywords = existing]
          IN  /\ Len(added) + Len(kws) + nops <= MaxAdded
              /\ IF kws = <<>> \/ (ui = "tk" /\ existing = old)
                 THEN UNCHANGED <<cfg, DEFAULT_CONFIG, shared, config_file, kw_listbox, rm_cfg>>
                 ELSE /\ cfg' = c
                      /\ rm_cfg' = IF /\ ui = "modern" /\ rm_open
                                      /\ "keywords" \in shared \cap rm_shared
                                   THEN [rm_cfg EXCEPT !.keywords = existing]
                                   ELSE rm_cfg
                      /\ DEFAULT_CONFIG' = IF ui # "tk" /\ "keywords" \in shared
                                           THEN [DEFAULT_CONFIG EXCEPT !.keywords = existing]
                                           ELSE DEFAULT_CONFIG
                      /\ shared' = IF ui = "tk" THEN shared \ {"keywords"} ELSE shared
                      /\ config_file' = save_config(config_file, writable, c)
                      /\ kw_listbox' = IF ui = "tk" THEN existing ELSE kw_listbox
              /\ added' = added \o kws
    /\ UNCHANGED loads
    /\ Frame

\* the clear-keywords handler: cfg['keywords'] = []
ClearKeywords ==
    /\ ~(ui = "sg" /\ rm_open)
    /\ cfg' = [cfg EXCEPT !.keywords = <<>>]
    /\ shared' = shared \ {"keywords"}
    /\ config_file' = save_config(config_file, writable, cfg')
    /\ kw_listbox' = <<>>
    /\ added' = <<>>
    /\ UNCHANGED <<DEFAULT_CONFIG, loads, rm_cfg>>
    /\ Frame

\* cfg = load_config() again: run_sg_gui after the rule manager is closed
\* without a change, FileManagerApp.refresh_rules_display
Reload ==
    /\ ui \in {"sg", "modern"}
    /\ Len(loads) < MaxLoads
    /\ LET r == load_config(config_file, DEFAULT_CONFIG, ui)
       IN  /\ cfg' = r.cfg
           /\ shared' = r.shared
           /\ loads' = Append(loads, Loaded(config_file, r))
           /\ added' = r.cfg.keywords
    /\ UNCHANGED <<DEFAULT_CONFIG, config_file, kw_listbox, rm_cfg>>
    /\ Frame

NextConfig == AddKeyword \/ ClearKeywords \/ Reload

SpecConfig == InitConfig /\ [][NextConfig]_vars

(***************************************************************************)
(* The rule managers: open_rule_manager_sg, open_rule_manager_tk (both     *)
(* work on the front-end's own cfg dict) and RuleManagerWindow (holds the  *)
(* dict it was opened with, while every refresh_list makes the main window *)
(* load a new one)                                                         *)
(***************************************************************************)
\* f"{r['pattern']} -> {r['target']}"
DisplayText(r) == r.pattern.v \o <<" ", "-", ">", " ">> \o r.target.v

\* text.split('->')[0]
BeforeArrow(text) ==
    LET at == {i \in 1..(Len(text) - 1) : text[i] = "-" /\ text[i + 1] = ">"}
    IN  IF at = {} THEN text
        ELSE SubSeq(text, 1, (CHOOSE i \in at : \A j \in at : i <= j) - 1)

\* pattern = text.split('->')[0].strip()
\* idx = next((i for i, r in enumerate(cfg['routes']) if r['pattern'] == pattern), None)
\* for the selected row of the listbox; 0 stands for None, positions count from 1
FindSelected(rules, row) ==
    LET pattern == JStr(Strip(BeforeArrow(DisplayText(rules[row]))))
        hits == {i \in 1..Len(rules) : rules[i].pattern = pattern}
    IN  IF hits = {} THEN 0 ELSE CHOOSE i \in hits : \A j \in hits : i <= j

\* del cfg['routes'][idx]
RemoveAt(rules, i) == SubSeq(rules, 1, i - 1) \o SubSeq(rules, i + 1, Len(rules))

\* for idx in sorted(selected_indices, reverse=True): del self.cfg['routes'][idx]
RECURSIVE RemoveAll(_, _)
RemoveAll(rules, sel) ==
    IF sel = {} THEN rules
    ELSE LET top == CHOOSE i \in sel : \A j \in sel : j <= i
         IN  RemoveAll(IF top <= Len(rules) THEN RemoveAt(rules, top) ELSE rules,
                       sel \ {top})

\* cfg['routes'][i], cfg['routes'][j] = cfg['routes'][j], cfg['routes'][i]
Swap(rules, i, j) ==
    [k \in 1..Len(rules) |-> IF k = i THEN rules[j] ELSE IF k = j THEN rules[i] ELSE rules[k]]

\* the targets of the rules, each once, in the order of their first rule:
\* the keys of target_groups
RECURSIVE TargetGroups(_, _)
TargetGroups(rules, out) ==
    IF rules = <<>> THEN out
    ELSE TargetGroups(Tail(rules),
                      IF InSeq(Head(rules).target, out) THEN out
                      ELSE Append(out, Head(rules).target))

\* target_groups[target]: the patterns of the rules with that target, in rule order
RECURSIVE PatternsOf(_, _)
PatternsOf(rules, target) ==
    IF rules = <<>> THEN <<>>
    ELSE (IF Head(rules).target = target THEN <<Head(rules).pattern.v>> ELSE <<>>)
             \o PatternsOf(Tail(rules), target)

\* ' | '.join(patterns)
RECURSIVE BarJoin(_)
BarJoin(patterns) ==
    IF patterns = <<>> THEN <<>>
    ELSE IF Len(patterns) = 1 THEN patterns[1]
    ELSE patterns[1] \o <<" ", "|", " ">> \o BarJoin(Tail(patterns))

\* merge_duplicates that keeps only the first pattern of each target
merge_keep_first_pattern(rules) ==
    LET targets == TargetGroups(rules, <<>>)
    IN  [k \in 1..Len(targets) |->
            Rule(JStr(PatternsOf(rules, targets[k])[1]), targets[k])]

\* merge_duplicates, confirmed: one rule per target, in the order of the
\* targets' first rules, its pattern the patterns of that target joined
merge_duplicates(rules) ==
    LET targets == TargetGroups(rules, <<>>)
    IN  [k \in 1..Len(targets) |->
            Rule(JStr(BarJoin(PatternsOf(rules, targets[k]))), targets[k])]

\* duplicates: some target has more than one pattern
HasDuplicates(rules) ==
    \E i, j \in 1..Len(rules) : i # j /\ rules[i].target = rules[j].target

\* the rules as match_routes_for_name reads them
AsRoutes(rules) ==
    [k \in 1..Len(rules) |-> [pattern |-> rules[k].pattern.v, target |-> rules[k].target.v]]

(***************************************************************************)
(* A front-end with its rule manager: the manager's handlers, and the main *)
(* window's keyword and scan handlers next to them                         *)
(***************************************************************************)
MaxOps == 3     \* rule manager and scan handlers run in one behaviour

RB == Rule(JStr(<<"b">>), JStr(<<"x">>))

\* stored configurations: none, one with keywords and two rules, one with two
\* rules of the same pattern, two of them with the same target
ManagerFiles ==
    { Missing,
      Object([keywords |-> << <<"B">> >>, exts |-> << <<"p">> >>, recursive |-> FALSE,
              copy_mode |-> FALSE],
             Routes("list", <<Entry("rule", RX.pattern, RX.target),
                              Entry("rule", RY.pattern, RY.target)>>)),
      Object([keywords |-> <<>>],
             Routes("list", <<Entry("rule", RX.pattern, RX.target),
                              Entry("rule", JStr(<<"b">>), JStr(<<"y">>)),
                              Entry("rule", RB.pattern, RB.target)>>)) }

\* what the user types into the pattern and target fields
PatternInputs == { <<" ", "b">>, <<" ">> }
TargetInputs == { <<"y", " ">> }

\* what the user types into the extensions field
ExtInputs == { <<".", "T", ",", "p">> }

\* the file names routed with the rules
RoutedNames == { <<"a">>, <<"b">>, <<"a", "b">>, <<"c">> }

InitManager ==
    /\ MatchIdle
    /\ FsIdle
    /\ TextIdle
    /\ ScanIdle
    /\ ui \in UIs
    /\ base = NoText /\ routes = <<>> /\ copy_mode = FALSE /\ auto_use_first = FALSE
    /\ matched_files = <<>> /\ pc = "off" /\ idx = 0 /\ groups = NoGroups
    /\ plan = <<>> /\ offered = <<>> /\ moved = 0 /\ failed = 0 /\ skipped = 0
    /\ outcomes = <<>>
    /\ config_file \in ManagerFiles
    /\ writable = TRUE
    /\ DEFAULT_CONFIG = BuiltIn(ui)
    /\ ManagerClosed
    /\ LET r == load_config(config_file, BuiltIn(ui), ui)
       IN  /\ cfg = r.cfg
           /\ shared = r.shared
           /\ loads = <<Loaded(config_file, r)>>
           /\ kw_listbox = IF ui = "tk" THEN r.cfg.keywords ELSE <<>>
           /\ added = <<>>

Step ==
    /\ nops < MaxOps
    /\ nops' = nops + 1
    /\ UNCHANGED <<matchVars, fsVars, callVars, batchVars, textVars, scanVars, writable,
                   kw_listbox, added>>

Handled(op, sel, before, after) == [op |-> op, sel |-> sel, before |-> before, after |-> after]

\* a handler of the rule manager that leaves without a change
Nothing(op, sel) ==
    /\ mlast' = Handled(op, sel, IF ui = "modern" THEN rm_cfg.routes ELSE cfg.routes,
                        IF ui = "modern" THEN rm_cfg.routes ELSE cfg.routes)
    /\ UNCHANGED <<cfg, DEFAULT_CONFIG, shared, config_file, loads, rm_cfg, rm_shared>>

\* save_config(cfg) alone, the legacy rule manager's cfg being the front-end's
LegacySaved(op, sel) ==
    /\ config_file' = save_config(config_file, writable, cfg)
    /\ mlast' = Handled(op, sel, cfg.routes, cfg.routes)
    /\ UNCHANGED <<cfg, DEFAULT_CONFIG, shared, loads, rm_cfg, rm_shared>>

\* the legacy rule manager changes the list cfg['routes'] in place, then
\* save_config(cfg)
LegacyRoutes(new, op, sel) ==
    /\ cfg' = [cfg EXCEPT !.routes = new]
    /\ DEFAULT_CONFIG' = IF "routes" \in shared
                         THEN [DEFAULT_CONFIG EXCEPT !.routes = new]
                         ELSE DEFAULT_CONFIG
    /\ config_file' = save_config(config_file, writable, cfg')
    /\ mlast' = Handled(op, sel, cfg.routes, new)
    /\ UNCHANGED <<shared, loads, rm_cfg, rm_shared>>

\* RuleManagerWindow changes self.cfg['routes'] (the list in place, or the key
\* when inplace is FALSE), then save_config(self.cfg) and self.refresh_list(),
\* which ends in FileManagerApp.refresh_rules_display: self.cfg = load_config()
ModernRoutes(new, inplace, op, sel) ==
    LET c == [rm_cfg EXCEPT !.routes = new]
        dflt == IF inplace /\ "routes" \in rm_shared
                THEN [DEFAULT_CONFIG EXCEPT !.routes = new]
                ELSE DEFAULT_CONFIG
        file == save_config(config_file, writable, c)
        r == load_config(file, dflt, ui)
    IN  /\ rm_cfg' = c
        /\ rm_shared' = IF inplace THEN rm_shared ELSE rm_shared \ {"routes"}
        /\ DEFAULT_CONFIG' = dflt
        /\ config_file' = file
        /\ cfg' = r.cfg
        /\ shared' = r.shared
        /\ loads' = Append(loads, Loaded(file, r))
        /\ mlast' = Handled(op, sel, rm_cfg.routes, new)

\* the rules the open rule manager works on
Managed == IF ui = "modern" THEN rm_cfg.routes ELSE cfg.routes

\* run_sg_gui '打开规则管理器' up to the manager's event loop,
\* open_rule_manager_tk up to its buttons, FileManagerApp.open_rule_manager
\* with RuleManagerWindow.__init__ and its refresh_list
OpenRuleManager ==
    /\ ~rm_open
    /\ rm_open' = TRUE
    /\ IF ui = "modern"
       THEN LET r == load_config(config_file, DEFAULT_CONFIG, ui)
            IN  /\ rm_cfg' = cfg
                /\ rm_shared' = shared
                /\ cfg' = r.cfg
                /\ shared' = r.shared
                /\ loads' = Append(loads, Loaded(config_file, r))
       ELSE UNCHANGED <<rm_cfg, rm_shared, cfg, shared, loads>>
    /\ mlast' = Handled("open", {}, cfg.routes, cfg.routes)
    /\ UNCHANGED <<DEFAULT_CONFIG, config_file>>
    /\ Step

\* the manager is closed: run_sg_gui goes on with cfg = load_config(),
\* RuleManagerWindow.on_close refreshes the main window, tk destroys the window
CloseRuleManager ==
    /\ rm_open
    /\ rm_open' = FALSE
    /\ rm_cfg' = <<>>
    /\ rm_shared' = {}
    /\ IF ui = "tk"
       THEN UNCHANGED <<cfg, shared, loads>>
       ELSE LET r == load_config(config_file, DEFAULT_CONFIG, ui)
            IN  /\ cfg' = r.cfg
                /\ shared' = r.shared
                /\ loads' = Append(loads, Loaded(config_file, r))
    /\ mlast' = Handled("close", {}, Managed, Managed)
    /\ UNCHANGED <<DEFAULT_CONFIG, config_file>>
    /\ Step

\* '添加规则' / add_rule / RuleManagerWindow.add_rule
MgrAddRule ==
    /\ rm_open /\ UNCHANGED rm_open
    /\ \E p \in PatternInputs, t \in TargetInputs :
          LET k == Strip(p)
              v == Strip(t)
              new == Append(Managed, Rule(JStr(k), JStr(v)))
          IN  IF k = <<>> \/ v = <<>> THEN Nothing("add", {})
              ELSE IF ui = "modern" THEN ModernRoutes(new, TRUE, "add", {})
              ELSE LegacyRoutes(new, "add", {})
    /\ Step

\* '删除规则' / del_rule with one row selected; RuleManagerWindow.delete_selected
\* with the checked rows
MgrDelete ==
    /\ rm_open /\ UNCHANGED rm_open
    /\ IF ui = "modern"
       THEN \E sel \in SUBSET (1..Len(Managed)) :
               IF sel = {} THEN Nothing("delete", sel)
               ELSE ModernRoutes(RemoveAll(Managed, sel), TRUE, "delete", sel)
       ELSE \E row \in 1..Len(Managed) :
               LET at == FindSelected(Managed, row)
               IN  IF at = 0 THEN Nothing("delete", {row})
                   ELSE LegacyRoutes(RemoveAt(Managed, at), "delete", {row})
    /\ Step

\* '上移' / '下移', move_up / move_down with one row selected
MgrMove ==
    /\ rm_open /\ UNCHANGED rm_open
    /\ \E row \in 1..Len(Managed), op \in {"up", "down"} :
          LET at == IF ui = "modern" THEN row ELSE FindSelected(Managed, row)
              to == IF op = "up" THEN at - 1 ELSE at + 1
              can == at # 0 /\ to >= 1 /\ to <= Len(Managed)
          IN  IF can
              THEN IF ui = "modern" THEN ModernRoutes(Swap(Managed, at, to), TRUE, op, {row})
                   ELSE LegacyRoutes(Swap(Managed, at, to), op, {row})
              ELSE IF ui = "sg" /\ at # 0 THEN LegacySaved(op, {row})
              ELSE Nothing(op, {row})
    /\ Step

\* RuleManagerWindow.edit_selected with one row checked, and its save_edit
MgrEdit ==
    /\ rm_open /\ UNCHANGED rm_open /\ ui = "modern"
    /\ \E row \in 1..Len(Managed), p \in PatternInputs, t \in TargetInputs :
          LET k == Strip(p)
              v == Strip(t)
          IN  IF k = <<>> \/ v = <<>> THEN Nothing("edit", {row})
              ELSE ModernRoutes([Managed EXCEPT ![row] = Rule(JStr(k), JStr(v))], TRUE,
                                "edit", {row})
    /\ Step

\* RuleManagerWindow.merge_duplicates and the answer to its askyesno
MgrMerge ==
    /\ rm_open /\ UNCHANGED rm_open /\ ui = "modern"
    /\ IF Managed = <<>> \/ ~HasDuplicates(Managed) THEN Nothing("merge", {})
       ELSE \E confirm \in BOOLEAN :
               IF confirm
               THEN ModernRoutes(merge_duplicates(Managed), FALSE, "merge", {})
               ELSE Nothing("merge", {})
    /\ Step

\* the scan handlers up to find_matching_files: cfg['exts'] = exts;
\* cfg['recursive'] = ...; save_config(cfg); the user has flipped the
\* recursive checkbox before the scan
ScanSettings ==
    /\ ~(ui = "sg" /\ rm_open)
    /\ \E e \in ExtInputs :
          /\ cfg' = [cfg EXCEPT !.exts = normalize_exts(e), !.recursive = ~cfg.recursive]
          /\ config_file' = save_config(config_file, writable, cfg')
    /\ shared' = shared \ {"exts"}
    /\ mlast' = Handled("scan", {}, cfg.routes, cfg.routes)
    /\ UNCHANGED <<DEFAULT_CONFIG, loads, rm_open, rm_cfg, rm_shared>>
    /\ Step

NextManager ==
    \/ OpenRuleManager
    \/ CloseRuleManager
    \/ MgrAddRule
    \/ MgrDelete
    \/ MgrMove
    \/ MgrEdit
    \/ MgrMerge
    \/ ScanSettings
    \/ AddKeyword

SpecManager == InitManager /\ [][NextManager]_vars

(***************************************************************************)
(* C11 .. C20                                                              *)
(***************************************************************************)
Returned(fn) == tDone /\ tCall.fn = fn

\* C11: file_matches(name, keywords, exts) is true exactly when (exts is empty
\* or the lowercased name ends with "." followed by one of the extensions) and
\* (keywords is empty or the lowercased name contains the lowercased form of
\* one of the keywords); with no keyword and the one extension p every name
\* whose lowercased form ends in ".p" is accepted and every other name rejected.
C11_FileMatchesExactly ==
    Returned("file_matches") =>
        LET low == Lower(tCall.name)
            extOk == \/ tCall.exts = <<>>
                     \/ \E e \in {tCall.exts[i] : i \in 1..Len(tCall.exts)} :
                            \E n \in 0..Len(low) :
                                low = SubSeq(low, 1, n) \o <<".">> \o e
            kwOk == \/ tCall.keywords = <<>>
                    \/ \E k \in {tCall.keywords[i] : i \in 1..Len(tCall.keywords)} :
                           \E m, n \in 0..Len(low) :
                               /\ m <= n
                               /\ low = SubSeq(low, 1, m) \o Lower(k) \o SubSeq(low, n + 1, Len(low))
        IN  /\ tRet = (extOk /\ kwOk)
            /\ (tCall.keywords = <<>> /\ tCall.exts = << <<"p">> >>) =>
                   (tRet = (Len(low) >= 2 /\ low[Len(low) - 1] = "." /\ low[Len(low)] = "p"))

\* a name accepted by the extension filter alone, in upper case
C11_Witness ==
    /\ Returned("file_matches")
    /\ tCall.keywords = <<>> /\ tCall.exts = << <<"p">> >>
    /\ tCall.name = <<"B", ".", "p">>
    /\ tRet = TRUE

\* the folder argument names a directory
ValidFolder == scan.folder # NoText /\ Resolve(scan.folder) \in dirs

IsPrefix(p, q) == Len(p) <= Len(q) /\ SubSeq(q, 1, Len(p)) = p

Wanted(f) == file_matches(f.name, scan.keywords, scan.exts)

\* C12: without the recursive flag find_matching_files returns exactly the
\* matching regular files directly inside the folder, never a directory and
\* never a file of a subdirectory; with it, exactly the matching files of the
\* folder and of its subdirectories at every depth; each file once.
C12_FoundExactlyTheMatchingFiles ==
    (scan.done /\ ValidFolder) =>
        LET got == {found[i] : i \in 1..Len(found)}
            top == Resolve(scan.folder)
        IN  /\ scan.ok
            /\ \A i, j \in 1..Len(found) : found[i] = found[j] => i = j
            /\ got \subseteq DOMAIN fs
            /\ ~scan.recursive =>
                   got = {f \in DOMAIN fs : f.dir = top /\ Wanted(f)}
            /\ scan.recursive =>
                   got = {f \in DOMAIN fs : IsPrefix(top, f.dir) /\ Wanted(f)}

\* a recursive scan that found a file two levels down and one in the folder
\* itself, and left out the subfolder whose name passes the filter
C12_Witness ==
    /\ scan.done /\ scan.recursive
    /\ scan.folder = Abs(<<"s">>)
    /\ scan.exts = << <<"p">> >> /\ scan.keywords = <<>>
    /\ \E i, j \in 1..Len(found) :
          /\ found[i].dir = <<"s", "u", "v">>
          /\ found[j].dir = <<"s">>
    /\ File(<<"s">>, <<"B", ".", "p">>) \notin DOMAIN fs

\* C13: find_matching_files returns the empty list and raises no error when
\* the folder argument is empty, does not exist or is not a directory, whatever
\* the keywords, the extensions and the recursive flag.
C13_InvalidFolderFindsNothing ==
    (scan.done /\ ~ValidFolder) => (scan.ok /\ found = <<>>)

\* a non-recursive scan of a regular file's path
C13_Witness ==
    /\ scan.done /\ ~scan.recursive
    /\ scan.folder = Abs(<<"s", "a.p">>)
    /\ File(<<"s">>, <<"a", ".", "p">>) \in DOMAIN fs
    /\ scan.ok /\ found = <<>>

\* entries are the lowercased forms of segments of text that follow one
\* another from position `from` on
RECURSIVE InTextOrder(_, _, _)
InTextOrder(entries, text, from) ==
    \/ entries = <<>>
    \/ \E a \in from..(Len(text) + 1) :
          \E b \in (a - 1)..Len(text) :
              /\ Lower(SubSeq(text, a, b)) = Head(entries)
              /\ InTextOrder(Tail(entries), text, b + 1)

\* C14: every entry normalize_exts returns is non-empty, lowercase, without a
\* leading dot and without surrounding whitespace, the entries stand in the
\* order of the input, and the empty text gives the empty list.
C14_ExtensionsNormalised ==
    Returned("normalize_exts") =>
        /\ \A i \in 1..Len(tRet) :
              LET e == tRet[i]
              IN  /\ e # <<>>
                  /\ \A k \in 1..Len(e) : e[k] \notin {"A", "B"}
                  /\ e[1] # "."
                  /\ ~IsSpace(e[1]) /\ ~IsSpace(e[Len(e)])
        /\ InTextOrder(tRet, tCall.text, 1)
        /\ tCall.text = <<>> => tRet = <<>>

IsKeywordSep(c) == c \in KeywordSeparators

\* text[a..b] is a maximal run of characters that are no separators
TokenAt(text, a, b) ==
    /\ a <= b
    /\ \A k \in a..b : ~IsKeywordSep(text[k])
    /\ a = 1 \/ IsKeywordSep(text[a - 1])
    /\ b = Len(text) \/ IsKeywordSep(text[b + 1])

\* text[a..b] without the whitespace at its two ends
TrimmedAt(text, a, b) ==
    LET solid == {k \in a..b : ~IsSpace(text[k])}
    IN  IF solid = {} THEN <<>>
        ELSE SubSeq(text, CHOOSE k \in solid : \A m \in solid : k <= m,
                          CHOOSE k \in solid : \A m \in solid : m <= k)

\* the positions at which the trimmed token e starts in text
StartsOf(text, e) ==
    {a \in 1..Len(text) : \E b \in a..Len(text) :
                              TokenAt(text, a, b) /\ TrimmedAt(text, a, b) = e}

FirstStart(text, e) == CHOOSE a \in StartsOf(text, e) : \A m \in StartsOf(text, e) : a <= m

\* C15: parse_keywords returns the non-empty trimmed tokens between the
\* separators (space, ASCII and full-width comma and semicolon, slash, pipe,
\* tab, newline), each once, in the order of their first occurrence; the empty
\* text gives the empty list.
C15_KeywordsParsed ==
    Returned("parse_keywords") =>
        LET text == tCall.text
        IN  /\ \A i \in 1..Len(tRet) : tRet[i] # <<>> /\ StartsOf(text, tRet[i]) # {}
            /\ \A a \in 1..Len(text) : \A b \in a..Len(text) :
                  (TokenAt(text, a, b) /\ TrimmedAt(text, a, b) # <<>>) =>
                      \E i \in 1..Len(tRet) : tRet[i] = TrimmedAt(text, a, b)
            /\ \A i, j \in 1..Len(tRet) : tRet[i] = tRet[j] => i = j
            /\ \A i, j \in 1..Len(tRet) :
                  i < j => FirstStart(text, tRet[i]) < FirstStart(text, tRet[j])
            /\ text = <<>> => tRet = <<>>

\* "a，a" gives the single keyword a
C15_Witness ==
    /\ Returned("parse_keywords")
    /\ tCall.text = <<"a", FullComma, "a">>
    /\ tRet = << <<"a">> >>

\* str.join
RECURSIVE Join(_, _)
Join(list, sep) ==
    IF list = <<>> THEN <<>>
    ELSE IF Len(list) = 1 THEN list[1]
    ELSE list[1] \o <<sep>> \o Join(Tail(list), sep)

\* C16: normalising is idempotent: the list normalize_exts returns, joined
\* with commas and normalised again, is that list; the list parse_keywords
\* returns, joined with a separator and parsed again, is that list.
C16_NormalisingIdempotent ==
    /\ Returned("normalize_exts") => normalize_exts(Join(tRet, ",")) = tRet
    /\ Returned("parse_keywords") =>
          \A sep \in KeywordSeparators : parse_keywords(Join(tRet, sep)) = tRet

\* the position of the first occurrence of x in s
FirstAt(s, x) == CHOOSE i \in 1..Len(s) : s[i] = x /\ \A j \in 1..(i - 1) : s[j] # x

\* C17: after any sequence of add-keyword and clear-keywords operations on a
\* configuration whose keyword list has no duplicates, the keyword list has
\* no duplicates and holds the keywords added since it was last emptied or
\* loaded, in the order of their first addition.
C17_KeywordsUniqueInInsertionOrder ==
    /\ \A i, j \in 1..Len(cfg.keywords) : cfg.keywords[i] = cfg.keywords[j] => i = j
    /\ \A i \in 1..Len(added) : InSeq(added[i], cfg.keywords)
    /\ \A i \in 1..Len(cfg.keywords) : InSeq(cfg.keywords[i], added)
    /\ \A i, j \in 1..Len(cfg.keywords) :
          i < j => FirstAt(added, cfg.keywords[i]) < FirstAt(added, cfg.keywords[j])

\* a keyword added a second time, then another one
C17_Witness ==
    /\ Len(loads) = 1
    /\ added = << <<"a">>, <<"a">>, <<"B">> >>
    /\ cfg.keywords = << <<"a">>, <<"B">> >>

\* C18: load_config never raises, and when the configuration file is missing,
\* unreadable or not a JSON object it returns the built-in defaults: no
\* keywords, the extensions pdf, doc, docx and txt, recursive on, copy mode off
\* and the two built-in rules.
C18_UnusableFileGivesBuiltInDefaults ==
    \A i \in 1..Len(loads) :
        /\ ~loads[i].raised
        /\ loads[i].file.kind # "object" =>
              /\ loads[i].cfg.keywords = <<>>
              /\ loads[i].cfg.exts = DefaultExts
              /\ loads[i].cfg.recursive = TRUE
              /\ loads[i].cfg.copy_mode = FALSE
              /\ loads[i].cfg.routes = DefaultRoutes

WellFormed(e) == e.kind = "rule"

\* the rules of rs are the entries of es, one for one and in order, with the
\* texts of their pattern and target
SameRules(rs, es) ==
    /\ Len(rs) = Len(es)
    /\ \A i \in 1..Len(es) :
          /\ rs[i].pattern.v = es[i].pattern.v
          /\ rs[i].target.v = es[i].target.v

\* C19: from a stored routes list load_config keeps exactly the entries that
\* are objects with both a pattern and a target, in their stored order, and
\* drops the others; from a stored pattern-to-target map it makes one rule per
\* entry, in the map's order.
C19_StoredRoutesLoaded ==
    \A i \in 1..Len(loads) :
        loads[i].file.kind = "object" =>
            LET stored == loads[i].file.data.routes
            IN  /\ stored.shape = "list" =>
                      SameRules(loads[i].cfg.routes, SelectSeq(stored.items, WellFormed))
                /\ stored.shape = "map" => SameRules(loads[i].cfg.routes, stored.items)

Untouched(f) ==
    /\ f \in DOMAIN fs
    /\ fs[f] = f
    /\ \A p \in DOMAIN fs : fs[p] = f => p = f

\* the positions in the batch of the files a decision is being requested for
AskedAt ==
    IF pc = "ask" THEN {idx}
    ELSE IF pc = "prompt"
         THEN {i \in 1..Len(matched_files) :
                  \E k \in 1..Len(groups.multi) : groups.multi[k].f = matched_files[i]}
         ELSE {}

Colliding(files, d, bname) ==
    {p \in DOMAIN files :
        /\ p.dir = d
        /\ \/ p.name = bname
           \/ \E i \in 1..(Cardinality(DOMAIN files) + 1) : p.name = NameWithSuffix(bname, i)}

\* C22: the collision search tries the plain name, then the suffixes (1), (2),
\* ... in increasing order, and ends: with n colliding names in the
\* destination it makes at most n + 1 existence checks, every name it
\* passed over was taken, and exactly one copy or move is performed.
C22_CollisionSearchEnds ==
    (Called /\ last.checks > 0) =>
        LET bname == basename(last.src)
            n == Cardinality(Colliding(pre, last.dst, bname))
            tried == last.checks - 1
            target == File(last.dst, IF tried = 0 THEN bname ELSE NameWithSuffix(bname, tried))
        IN  /\ last.checks <= n + 1
            /\ tried >= 1 => File(last.dst, bname) \in DOMAIN pre
            /\ \A j \in 1..(tried - 1) : File(last.dst, NameWithSuffix(bname, j)) \in DOMAIN pre
            /\ target \notin DOMAIN pre
            /\ last.ok =>
                  /\ last.ret = target
                  /\ DOMAIN fs = (DOMAIN pre \cup {target})
                                     \ (IF last.op = "move" THEN {last.src} ELSE {})
                  /\ fs[target] = pre[last.src]
                  /\ \A p \in DOMAIN fs \ {target} : fs[p] = pre[p]
            /\ ~last.ok => fs = pre

\* a move into a directory that holds the name and its variant (1): three
\* checks, the file arrives as (2)
C22_Witness ==
    /\ Called /\ last.ok /\ last.op = "move"
    /\ last.checks = 3
    /\ Cardinality(Colliding(pre, last.dst, basename(last.src))) = 2
    /\ last.ret.name = NameWithSuffix(basename(last.src), 2)

\* what load_config returns for the stored configuration
Persisted == load_config(config_file, DEFAULT_CONFIG, ui).cfg

\* the handlers of the rule manager that work on the rules
RuleOps == {"add", "delete", "up", "down", "edit", "merge"}

\* the settings of c that the main window saves are those of d
KeepsSettings(c, d) ==
    /\ \A i \in 1..Len(c.keywords) : \E j \in 1..Len(d.keywords) : d.keywords[j] = c.keywords[i]
    /\ d.exts = c.exts
    /\ d.recursive = c.recursive

\* C23: in the modern front-end, with the rule manager open next to the main
\* window, a rule manager operation (add, delete, edit, move up or down,
\* merge) loses no update made through the main window: the keywords, the
\* extensions and the recursive flag of the main window's configuration are
\* still in the main window's configuration and in the stored configuration
\* after the operation
C23_NoUpdateLost ==
    [][(ui = "modern" /\ rm_open /\ nops' = nops + 1 /\ mlast'.op \in RuleOps)
          => (KeepsSettings(cfg, cfg') /\ KeepsSettings(cfg, Persisted'))]_vars

\* C24: the built-in default configuration is never modified, whatever
\* load_config calls, rule edits and keyword edits were made, so load_config
\* with a missing file returns the original defaults
C24_DefaultsNeverModified ==
    /\ DEFAULT_CONFIG = BuiltIn(ui)
    /\ load_config(Missing, DEFAULT_CONFIG, ui).cfg = BuiltIn(ui)

\* the configurations the front-end and its open rule manager hold
HeldConfigs == {cfg} \cup (IF ui = "modern" /\ rm_open THEN {rm_cfg} ELSE {})

\* C25: saving then loading round-trips the rules: for every configuration
\* held by the program, whose rules are well-formed pairs of strings and may
\* be the empty list left by deleting every rule, load_config after a
\* successful save_config of it returns a rule sequence equal to its rules
C25_SaveLoadRoundTrip ==
    \A c \in HeldConfigs :
        load_config(save_config(config_file, TRUE, c), DEFAULT_CONFIG, ui).cfg.routes = c.routes

\* the file names of directory d
NamesIn(files, d) == {f.name : f \in {g \in DOMAIN files : g.dir = d}}

\* C26: in move mode, transferring a file whose destination directory is the
\* directory it already resides in leaves that directory's set of file names
\* unchanged: no file is renamed or multiplied
C26_MoveWithinDirectoryKeepsNames ==
    (Called /\ last.op = "move" /\ last.ok /\ last.src.dir = last.dst) =>
        NamesIn(fs, last.dst) = NamesIn(pre, last.dst)

\* the targets match_routes_for_name returns for a name, in rule order
MatchedTargets(rules, name) ==
    LET m == match_routes_for_name(name, AsRoutes(rules))
    IN  [k \in 1..Len(m) |-> m[k][2]]

\* the target the auto-first policy takes: matches[0][1], if any rule matches
FirstTarget(rules, name) ==
    IF MatchedTargets(rules, name) = <<>> THEN <<>>
    ELSE <<MatchedTargets(rules, name)[1]>>

\* the rule manager's last handler was a merge that the user confirmed
Merged == mlast.op = "merge" /\ mlast.after # mlast.before

\* C27: merge_duplicates does not change routing under the auto-first policy:
\* for every file name, the target of the first matching rule after the merge
\* equals the target of the first matching rule before the merge
C27_MergeKeepsFirstTarget ==
    Merged => \A name \in RoutedNames :
                  FirstTarget(mlast.after, name) = FirstTarget(mlast.before, name)

\* the set of targets a name can reach
ReachedTargets(rules, name) ==
    {MatchedTargets(rules, name)[k] : k \in 1..Len(MatchedTargets(rules, name))}

\* C28: merge_duplicates preserves which targets a file can reach: for every
\* file name, the set of targets match_routes_for_name returns after a
\* confirmed merge equals the set returned before it, and after the merge no
\* two rules share a target
C28_MergePreservesTargets ==
    Merged =>
        /\ \A name \in RoutedNames :
              ReachedTargets(mlast.after, name) = ReachedTargets(mlast.before, name)
        /\ ~HasDuplicates(mlast.after)

\* a confirmed merge of three rules into two, with a name that reaches both
\* targets, one of them through the pattern that was joined to another rule's
C28_Witness ==
    /\ Merged
    /\ Len(mlast.before) = 3 /\ Len(mlast.after) = 2
    /\ \E name \in RoutedNames :
          /\ Cardinality(ReachedTargets(mlast.after, name)) = 2
          /\ MatchedTargets(mlast.after, name) # MatchedTargets(mlast.before, name)

\* what a handler of the rule manager is to make of the rules when the user
\* selected the given row
OnSelected(op, rules, row) ==
    CASE op = "delete" -> RemoveAt(rules, row)
      [] op = "up"     -> IF row > 1 THEN Swap(rules, row - 1, row) ELSE rules
      [] op = "down"   -> IF row < Len(rules) THEN Swap(rules, row, row + 1) ELSE rules

\* C29: in the rule manager of the legacy front-ends, delete, move up and
\* move down act on the rule the user selected: the rules afterwards are the
\* previous ones with exactly the selected rule removed, or swapped with its
\* predecessor (nothing at the first position) or with its successor (nothing
\* at the last position), also when two rules have the same pattern text
C29_ActsOnSelectedRule ==
    (Legacy /\ mlast.op \in {"delete", "up", "down"}) =>
        \A row \in mlast.sel : mlast.after = OnSelected(mlast.op, mlast.before, row)

\* the files and folders the batch started with: the scanned files, possibly
\* a file of that name in the destination, each with its own content
AsAtStart ==
    /\ \A i \in 1..Len(Scanned) : Scanned[i] \in DOMAIN fs
    /\ DOMAIN fs \subseteq {Scanned[i] : i \in 1..Len(Scanned)} \cup {File(DstDir, NameC)}
    /\ fs = Originals(DOMAIN fs)
    /\ dirs = {SrcDir, SubDir, Cwd, DstDir}

====
